---- MODULE Spec2Model ----
(***************************************************************************)
(* Model of MainScene (src/game/scenes/mainScene.ts) with the entity       *)
(* store (src/game/core/entity.ts), the keyboard state of InputSystem      *)
(* (src/game/core/input.ts) and the music upload path                      *)
(* (src/game/ui/musicUploader.ts).                                         *)
(*                                                                         *)
(* Time is counted in milliseconds.  Positions are not part of the scene   *)
(* state of this model: the geometric result of the AABB test of the       *)
(* player against each stored entity is an input of the tick (the set      *)
(* `hit` of objects whose box overlaps the player's box when               *)
(* handleCollisions runs).  The geometry itself, PhysicsSystem             *)
(* (src/game/core/physics.ts) and MainScene.updateEnemies, is modelled in  *)
(* the second part of the module and checked call by call under            *)
(* PhysicsSpec.                                                            *)
(***************************************************************************)
EXTENDS Integers, Sequences, FiniteSets

(* ---------- program constants ---------- *)
maxHealth == 100
enemyDamage == 10
healAmount == 20
pickupSpawnInterval == 5000
enemiesPerRoom == 3
totalRooms == 5
enemyScore == 20
pickupScore == 10
DtCap == 50

PlayerColor == "#4ecca3"
EnemyColor == "#ff6b6b"
PickupColor == "#4ecdc4"

(* ---------- bounds of the model ---------- *)
MaxObjs == 20          \* objects created during one run
MaxPending == 1        \* uploads in flight (loading or waiting for the timer)
MaxHeldKeys == 1       \* keys held down at the same time
MaxPlayTime == 20      \* play time of one run, pauses not counted
MusicLen == 20         \* duration reported by the uploaded file
MaxRewind == 0         \* play time below 0, reached by ticks with dt < 0
FrameGap == 16         \* time between two frames of a 60 Hz display
MaxFrames == 2         \* frames of the display after the one of start()
LongGap == 60          \* time between two frames after a stall

(* GameEngine.gameLoop: Math.min((timestamp - lastTime) / 1000, 0.05)     *)
cappedDelta(timestamp, last) ==
  IF timestamp - last < DtCap THEN timestamp - last ELSE DtCap

(* the timestamps of the frames of the scene specifications: the time of  *)
(* start() and the MaxFrames frames of the display that follow it. A      *)
(* frame can carry any of them whatever lastTime is: gameLoop does not    *)
(* compare them, and the timestamp of a frame is below lastTime when      *)
(* start() read the clock after the frame began.                          *)
FrameTimes == {k * FrameGap : k \in 0..MaxFrames}

(* the values of dt that gameLoop hands to MainScene.update: the frames   *)
(* above and a frame after a stall                                        *)
DtSet ==
  {cappedDelta(t, l) : t \in FrameTimes \cup {FrameGap + LongGap},
                       l \in FrameTimes \cup {FrameGap + LongGap}}

Durations == {MusicLen}

(* HTMLMediaElement.duration before the metadata is known. A comparison   *)
(* with NaN is false; a duration that is known is never negative.         *)
NaN == 0 - 1

Keys == {"p", "r", "e", "q"}

(* The code keeps gameTimer and pickupSpawnTimer as sums of doubles, in   *)
(* seconds; the model keeps the exact sums, in ms. The two agree on every *)
(* comparison of a timer with its threshold but the one in which the      *)
(* exact sum equals the threshold: there the sum of doubles can fall      *)
(* short of it (one hundred additions of 0.05 give 4.99999999999999) and  *)
(* the test of the code fails. short is the set of the timers whose sum   *)
(* of doubles falls short of the exact sum in this update.                *)
Timers == {"gameTimer", "pickupSpawnTimer"}

reached(name, sum, threshold, short) ==
  sum > threshold \/ (sum = threshold /\ name \notin short)

(* GameState enum *)
PLAYING == "PLAYING"
PAUSED == "PAUSED"
GAME_OVER == "GAME_OVER"
VICTORY == "VICTORY"
AWAITING_MUSIC == "AWAITING_MUSIC"
GameState == {PLAYING, PAUSED, GAME_OVER, VICTORY, AWAITING_MUSIC}

(* the id 'player'; every other entity gets a generated id, modelled by   *)
(* the number of the object.  Object numbers name live objects: restart    *)
(* drops every reference to the objects of the run it ends, so the         *)
(* numbers of the run before that one are free again and the numbering     *)
(* alternates between two ranges of MaxObjs numbers.                       *)
PlayerId == 0

FirstObj(n) == IF n <= MaxObjs THEN 1 ELSE MaxObjs + 1

OtherFirstObj(n) == IF n <= MaxObjs THEN MaxObjs + 1 ELSE 1

VARIABLES
  entities,             \* EntityManager.entities: Map in insertion order
  player,               \* MainScene.player: the object it refers to
  gameState,
  score,
  pickupSpawnTimer,
  currentRoom,
  roomsCleared,
  enemiesSpawnedInRoom,
  musicDuration,
  gameTimer,
  flamesExtinguished,
  totalFlames,
  keys,                 \* InputSystem.state.keys
  uploaderVisible,      \* MusicUploader container display != 'none'
  bgMusic,              \* AudioManager.bgMusic: the audio element of the latest upload
  loading,              \* handleMusicUpload calls awaiting loadBackgroundMusic
  timers,               \* pending setTimeout callbacks of handleMusicUpload
  nextObj,              \* number of the next object to be created
  toggledThisPress,     \* P is down and has toggled the pause since it went down
  fn,                   \* the PhysicsSystem / controller function under call
  pc,                   \* "call" before the function ran, "return" after it
  bodies,               \* the entities passed to the function
  dtArg,                \* the dt passed to PhysicsSystem.update, in ms
  result,               \* the value returned by PhysicsSystem.isColliding
  isRunning,            \* GameEngine.isRunning
  lastTime,             \* GameEngine.lastTime, in ms
  clock,                \* performance.now(), in ms
  frameTime,            \* the timestamp of the latest animation frame
  frameDue,             \* that frame has not run its callbacks yet
  pending,              \* frame callbacks requested for the next frame
  running,              \* callbacks of the current frame still to run
  deltaTime,            \* observed: the dt of the latest scene.update call, in ms
  updatesThisFrame,     \* observed: scene.update calls made in the current frame
  rendersThisFrame,     \* observed: scene.render calls made in the current frame
  heap,                 \* the Entity objects created so far, by reference
  emap,                 \* EntityManager.entities: <<key, reference>> entries
  live,                 \* references added to the manager and not removed since
  calls                 \* the calls the latest MainScene.update made, in order

sceneVars == <<entities, player, gameState, score, pickupSpawnTimer,
               currentRoom, roomsCleared, enemiesSpawnedInRoom, musicDuration,
               gameTimer, flamesExtinguished, totalFlames, keys,
               uploaderVisible, bgMusic, loading, timers, nextObj, toggledThisPress>>

physicsVars == <<fn, pc, bodies, dtArg, result>>

engineVars == <<isRunning, lastTime, clock, frameTime, frameDue, pending,
                running, deltaTime, updatesThisFrame, rendersThisFrame>>

storeVars == <<heap, emap, live>>

traceVars == <<calls>>

vars == <<entities, player, gameState, score, pickupSpawnTimer, currentRoom,
          roomsCleared, enemiesSpawnedInRoom, musicDuration, gameTimer,
          flamesExtinguished, totalFlames, keys, uploaderVisible, bgMusic, loading,
          timers, nextObj, toggledThisPress, fn, pc, bodies, dtArg, result,
          isRunning, lastTime, clock, frameTime, frameDue, pending, running,
          deltaTime, updatesThisFrame, rendersThisFrame, heap, emap, live,
          calls>>

Min(a, b) == IF a < b THEN a ELSE b

(* ---------- AudioManager.bgMusic ---------- *)
(* bgMusic = null *)
NoMusic ==
  [element |-> FALSE, file |-> 0, metadata |-> FALSE, source |-> FALSE,
   waiting |-> FALSE]

(* new Audio(url) of a file of d ms: the duration is not known yet, no    *)
(* MediaElementSource is attached, the load is awaited                    *)
Audio(d) ==
  [element |-> TRUE, file |-> d, metadata |-> FALSE, source |-> FALSE,
   waiting |-> TRUE]

(* HTMLMediaElement.duration *)
duration(a) == IF a.metadata THEN a.file ELSE NaN

(* AudioManager.stopBackgroundMusic *)
stopBackgroundMusic(s) == [s EXCEPT !.bgMusic = NoMusic]

(* ---------- EntityFactory ---------- *)
createPlayer(o) ==
  [id |-> PlayerId, obj |-> o,
   comps |-> {"transform", "physics", "sprite", "collider", "health"},
   color |-> PlayerColor, isTrigger |-> FALSE,
   current |-> maxHealth, max |-> maxHealth, onDeath |-> "undefined"]

createEnemy(o) ==
  [id |-> o, obj |-> o,
   comps |-> {"transform", "physics", "sprite", "collider"},
   color |-> EnemyColor, isTrigger |-> FALSE,
   current |-> 0, max |-> 0, onDeath |-> "undefined"]

createPickup(o) ==
  [id |-> o, obj |-> o,
   comps |-> {"transform", "sprite", "collider"},
   color |-> PickupColor, isTrigger |-> TRUE,
   current |-> 0, max |-> 0, onDeath |-> "undefined"]

(* ---------- EntityManager ---------- *)
HasId(store, id) == \E i \in DOMAIN store : store[i].id = id

add(store, e) ==
  IF HasId(store, e.id)
  THEN [i \in DOMAIN store |-> IF store[i].id = e.id THEN e ELSE store[i]]
  ELSE Append(store, e)

remove(store, id) == SelectSeq(store, LAMBDA e : e.id # id)

(* mutant: clear() that leaves the entities in the map *)
clear_keep(store) == store

clear(store) == << >>

(* the object this.player refers to, when it is still alive in the store *)
PlayerAlive(store, p) == \E i \in DOMAIN store : store[i].obj = p

PlayerEntity(store, p) ==
  store[CHOOSE i \in DOMAIN store : store[i].obj = p]

UpdatePlayer(store, p, e) ==
  [i \in DOMAIN store |-> IF store[i].obj = p THEN e ELSE store[i]]

(* ---------- MainScene: spawning and initialisation ---------- *)
spawnEnemy(s) ==
  [s EXCEPT !.entities = add(s.entities, createEnemy(s.nextObj)),
            !.nextObj = s.nextObj + 1]

spawnPickup(s) ==
  [s EXCEPT !.entities = add(s.entities, createPickup(s.nextObj)),
            !.nextObj = s.nextObj + 1]

RECURSIVE spawnLoop(_, _)
spawnLoop(s, i) ==
  IF i < enemiesPerRoom
  THEN spawnLoop([spawnEnemy(s) EXCEPT
                    !.enemiesSpawnedInRoom = s.enemiesSpawnedInRoom + 1],
                 i + 1)
  ELSE s

spawnRoomEnemies(s) == spawnLoop(s, 0)

(* init() replaces health.onDeath only when the component already has one *)
setupDeathCallback(e) ==
  IF "health" \in e.comps /\ e.onDeath # "undefined"
  THEN [e EXCEPT !.onDeath = "setGameOver"]
  ELSE e

init(s) ==
  LET p == setupDeathCallback(createPlayer(s.nextObj))
      s1 == [s EXCEPT !.player = p.obj,
                      !.entities = add(s.entities, p),
                      !.nextObj = s.nextObj + 1]
  IN spawnPickup(spawnRoomEnemies(s1))

(* ---------- MainScene: queries ---------- *)
IsEnemy(e) ==
  /\ e.id # PlayerId
  /\ "physics" \in e.comps
  /\ "sprite" \in e.comps
  /\ e.color = EnemyColor

getEnemies(store) == SelectSeq(store, IsEnemy)

isKeyPressed(s, k) == k \in s.keys

(* PhysicsSystem.isColliding: both sides need transform and collider; the  *)
(* outcome of the box comparison is the input hit                          *)
isColliding(a, b, hit) ==
  /\ "transform" \in a.comps /\ "collider" \in a.comps
  /\ "transform" \in b.comps /\ "collider" \in b.comps
  /\ b.obj \in hit

(* ---------- MainScene.handleCollisions ---------- *)
(* mutant: damage without the clamp at 0 *)
damage_noClamp(h) == h - enemyDamage

damage(h) == IF h - enemyDamage <= 0 THEN 0 ELSE h - enemyDamage

(* mutant: heal without the cap at max *)
heal_noCap(h, max) == h + healAmount

heal(h, max) == Min(h + healAmount, max)

enemyReaction(s, e) ==
  LET alive == PlayerAlive(s.entities, s.player)
      pl == IF alive THEN PlayerEntity(s.entities, s.player) ELSE createPlayer(0)
      hasHealth == alive /\ "health" \in pl.comps
      h == damage(pl.current)
      s1 == IF hasHealth
            THEN [s EXCEPT
                    !.entities = UpdatePlayer(s.entities, s.player,
                                              [pl EXCEPT !.current = h]),
                    !.gameState = IF pl.current - enemyDamage <= 0
                                     /\ pl.onDeath = "setGameOver"
                                  THEN GAME_OVER ELSE s.gameState]
            ELSE s
  IN [s1 EXCEPT !.entities = remove(s1.entities, e.id),
                !.flamesExtinguished = s.flamesExtinguished + 1,
                !.score = s.score + enemyScore]

(* mutant: the pickup is taken without a reward *)
pickupReaction_noScore(s, e) ==
  [s EXCEPT !.entities = remove(s.entities, e.id)]

(* mutant: the pickup heals and scores and stays in the store *)
pickupReaction_noRemove(s, e) ==
  LET pl == PlayerEntity(s.entities, s.player)
  IN [s EXCEPT !.entities = UpdatePlayer(s.entities, s.player,
                              [pl EXCEPT !.current = heal(pl.current, pl.max)]),
               !.score = s.score + pickupScore]

pickupReaction(s, e) ==
  LET alive == PlayerAlive(s.entities, s.player)
      pl == IF alive THEN PlayerEntity(s.entities, s.player) ELSE createPlayer(0)
      hasHealth == alive /\ "health" \in pl.comps
      s1 == IF hasHealth
            THEN [s EXCEPT
                    !.entities = UpdatePlayer(s.entities, s.player,
                                   [pl EXCEPT !.current = heal(pl.current, pl.max)])]
            ELSE s
  IN [s1 EXCEPT !.score = s.score + pickupScore,
                !.entities = remove(s1.entities, e.id)]

(* one iteration of the loop over the snapshot taken by getAll(); an       *)
(* entity removed earlier in the pass is inactive and has no components    *)
collideOne(s, e, hit) ==
  LET active == \E i \in DOMAIN s.entities : s.entities[i].obj = e.obj
      cur == IF active
             THEN s.entities[CHOOSE i \in DOMAIN s.entities :
                                      s.entities[i].obj = e.obj]
             ELSE [e EXCEPT !.comps = {}]
      pl == IF PlayerAlive(s.entities, s.player)
            THEN PlayerEntity(s.entities, s.player)
            ELSE [createPlayer(s.player) EXCEPT !.comps = {}]
  IN IF e.id = PlayerId \/ ~active THEN s
     ELSE IF ~isColliding(pl, cur, hit) THEN s
     ELSE LET isE == "sprite" \in cur.comps /\ cur.color = EnemyColor
              isP == "sprite" \in cur.comps /\ cur.color = PickupColor
              s1 == IF isE THEN enemyReaction(s, cur) ELSE s
          IN IF isP THEN pickupReaction(s1, cur) ELSE s1

RECURSIVE collideLoop(_, _, _, _)
collideLoop(s, snap, i, hit) ==
  IF i > Len(snap) THEN s
  ELSE collideLoop(collideOne(s, snap[i], hit), snap, i + 1, hit)

handleCollisions(s, hit) == collideLoop(s, s.entities, 1, hit)

(* ---------- MainScene: rooms ---------- *)
(* mutant: the room is marked without counting the remaining enemies *)
checkRoomCleared_noCount(s) ==
  IF /\ s.enemiesSpawnedInRoom > 0
     /\ s.currentRoom \notin s.roomsCleared
  THEN [s EXCEPT !.roomsCleared = s.roomsCleared \cup {s.currentRoom}]
  ELSE s

(* mutant: marking a room forgets the rooms marked before *)
checkRoomCleared_forgetOthers(s) ==
  IF /\ Len(getEnemies(s.entities)) = 0
     /\ s.enemiesSpawnedInRoom > 0
     /\ s.currentRoom \notin s.roomsCleared
  THEN [s EXCEPT !.roomsCleared = {s.currentRoom}]
  ELSE s

checkRoomCleared(s) ==
  IF /\ Len(getEnemies(s.entities)) = 0
     /\ s.enemiesSpawnedInRoom > 0
     /\ s.currentRoom \notin s.roomsCleared
  THEN [s EXCEPT !.roomsCleared = s.roomsCleared \cup {s.currentRoom}]
  ELSE s

RECURSIVE removeAll(_, _, _)
removeAll(store, es, i) ==
  IF i > Len(es) THEN store
  ELSE removeAll(remove(store, es[i].id), es, i + 1)

(* mutant: enemies are spawned in cleared rooms too *)
transitionToRoom_alwaysSpawn(s, roomNumber) ==
  spawnRoomEnemies(
    [s EXCEPT
       !.entities = removeAll(s.entities, getEnemies(s.entities), 1),
       !.currentRoom = roomNumber,
       !.enemiesSpawnedInRoom = 0])

transitionToRoom(s, roomNumber) ==
  LET s1 == [s EXCEPT
               !.entities = removeAll(s.entities, getEnemies(s.entities), 1),
               !.currentRoom = roomNumber,
               !.enemiesSpawnedInRoom = 0]
  IN IF roomNumber \notin s1.roomsCleared THEN spawnRoomEnemies(s1) ELSE s1

(* mutant: E moves on without the room being cleared *)
handleRoomTransition_unlocked(s) ==
  LET s1 == IF /\ isKeyPressed(s, "e")
               /\ s.currentRoom + 1 < totalRooms
            THEN transitionToRoom(s, s.currentRoom + 1)
            ELSE s
  IN IF /\ isKeyPressed(s1, "q")
        /\ s1.currentRoom \in s1.roomsCleared
        /\ s1.currentRoom - 1 >= 0
     THEN transitionToRoom(s1, s1.currentRoom - 1)
     ELSE s1

(* mutant: going back with Q seeds the room again *)
handleRoomTransition_reseedOnReturn(s) ==
  LET s1 == IF /\ isKeyPressed(s, "e")
               /\ s.currentRoom \in s.roomsCleared
               /\ s.currentRoom + 1 < totalRooms
            THEN transitionToRoom(s, s.currentRoom + 1)
            ELSE s
  IN IF /\ isKeyPressed(s1, "q")
        /\ s1.currentRoom \in s1.roomsCleared
        /\ s1.currentRoom - 1 >= 0
     THEN transitionToRoom_alwaysSpawn(s1, s1.currentRoom - 1)
     ELSE s1

handleRoomTransition(s) ==
  LET s1 == IF /\ isKeyPressed(s, "e")
               /\ s.currentRoom \in s.roomsCleared
               /\ s.currentRoom + 1 < totalRooms
            THEN transitionToRoom(s, s.currentRoom + 1)
            ELSE s
  IN IF /\ isKeyPressed(s1, "q")
        /\ s1.currentRoom \in s1.roomsCleared
        /\ s1.currentRoom - 1 >= 0
     THEN transitionToRoom(s1, s1.currentRoom - 1)
     ELSE s1

(* ---------- MainScene.restart ---------- *)
restart(s) ==
  init([s EXCEPT !.entities = clear(s.entities),
                 !.gameState = AWAITING_MUSIC,
                 !.score = 0,
                 !.pickupSpawnTimer = 0,
                 !.currentRoom = 0,
                 !.roomsCleared = {},
                 !.enemiesSpawnedInRoom = 0,
                 !.gameTimer = 0,
                 !.flamesExtinguished = 0,
                 !.musicDuration = 0,
                 !.keys = {},
                 !.toggledThisPress = FALSE,
                 !.uploaderVisible = TRUE,
                 !.bgMusic = NoMusic,
                 !.nextObj = OtherFirstObj(s.nextObj - 1)])

(* ---------- MainScene.update ---------- *)
(* mutant: a spawn that leaves the timer running *)
spawnTimerStep_noReset(s, dt, short) ==
  LET t == s.pickupSpawnTimer + dt
  IN IF reached("pickupSpawnTimer", t, pickupSpawnInterval, short)
     THEN [spawnPickup(s) EXCEPT !.pickupSpawnTimer = t]
     ELSE [s EXCEPT !.pickupSpawnTimer = t]

(* the block of the pickup spawn timer *)
spawnTimerStep(s, dt, short) ==
  LET t == s.pickupSpawnTimer + dt
  IN IF reached("pickupSpawnTimer", t, pickupSpawnInterval, short)
     THEN [spawnPickup(s) EXCEPT !.pickupSpawnTimer = 0]
     ELSE [s EXCEPT !.pickupSpawnTimer = t]

(* mutant: victory needs more flames than the run has *)
timeUp_strict(s) ==
  stopBackgroundMusic(
    [s EXCEPT !.gameState = IF s.flamesExtinguished > s.totalFlames
                            THEN VICTORY ELSE GAME_OVER])

timeUp(s) ==
  stopBackgroundMusic(
    [s EXCEPT !.gameState = IF s.flamesExtinguished >= s.totalFlames
                            THEN VICTORY ELSE GAME_OVER])

togglePause(s, to) ==
  [s EXCEPT !.gameState = to, !.toggledThisPress = TRUE]

(* what a call of update has done so far: the scene it has reached and    *)
(* the calls it has made, in the order it made them                       *)
Ran(s, cs) == [scene |-> s, calls |-> cs]

(* what the statement named name of update makes of the scene s.         *)
(* updatePlayerInput, updateMusicQuality, PhysicsSystem.update,           *)
(* entityManager.update, updateEnemies and updateFPS write velocities,    *)
(* positions, the playback rate and the frame counter, which are not part *)
(* of the scene state of this model; the spawn timer block is the entry   *)
(* "pickupSpawnTimer".                                                    *)
Statement(name, s, dt, hit, short) ==
  CASE name = "handleCollisions" -> handleCollisions(s, hit)
    [] name = "checkRoomCleared" -> checkRoomCleared(s)
    [] name = "handleRoomTransition" -> handleRoomTransition(s)
    [] name = "pickupSpawnTimer" -> spawnTimerStep(s, dt, short)
    [] OTHER -> s

(* the next statement of update runs on what ran before it, x             *)
Then(r, name, dt, hit, short) ==
  CHOOSE y \in {Ran(Statement(name, x.scene, dt, hit, short),
                    Append(x.calls, name)) : x \in {r}} : TRUE

(* the statements of update after the pause test, in the order of the     *)
(* code; updateMusicQuality is called when this.player has a health       *)
(* component (a destroyed player has no components)                       *)
playingTick(s, dt, hit, short) ==
  LET s1 == [s EXCEPT !.gameTimer = s.gameTimer + dt]
  IN IF /\ s1.musicDuration > 0
        /\ reached("gameTimer", s1.gameTimer, s1.musicDuration, short)
     THEN Ran(timeUp(s1), <<"stopBackgroundMusic">>)
     ELSE LET r1 == Then(Ran(s1, << >>), "updatePlayerInput", dt, hit, short)
              r2 == CHOOSE y \in
                      {IF /\ PlayerAlive(x.scene.entities, x.scene.player)
                          /\ "health" \in PlayerEntity(x.scene.entities,
                                                       x.scene.player).comps
                       THEN Then(x, "updateMusicQuality", dt, hit, short)
                       ELSE x : x \in {r1}} : TRUE
              r3 == Then(r2, "PhysicsSystem.update", dt, hit, short)
              r4 == Then(r3, "handleCollisions", dt, hit, short)
              r5 == Then(r4, "entityManager.update", dt, hit, short)
              r6 == Then(r5, "updateEnemies", dt, hit, short)
              r7 == Then(r6, "checkRoomCleared", dt, hit, short)
              r8 == Then(r7, "handleRoomTransition", dt, hit, short)
              r9 == Then(r8, "pickupSpawnTimer", dt, hit, short)
          IN Then(r9, "updateFPS", dt, hit, short)

(* mutant: a paused tick without the pause key runs the simulation *)
update_pausedRuns(s, dt, hit, short) ==
  IF s.gameState = AWAITING_MUSIC THEN Ran(s, << >>)
  ELSE IF s.gameState \in {GAME_OVER, VICTORY}
  THEN (IF isKeyPressed(s, "r") THEN Ran(restart(s), <<"restart">>)
        ELSE Ran(s, << >>))
  ELSE IF s.gameState = PAUSED /\ isKeyPressed(s, "p")
  THEN Ran(togglePause(s, PLAYING), << >>)
  ELSE IF s.gameState = PLAYING /\ isKeyPressed(s, "p")
  THEN Ran(togglePause(s, PAUSED), << >>)
  ELSE playingTick(s, dt, hit, short)

(* mutant: any key restarts a finished run *)
update_anyKeyRestarts(s, dt, hit, short) ==
  IF s.gameState = AWAITING_MUSIC THEN Ran(s, << >>)
  ELSE IF s.gameState \in {GAME_OVER, VICTORY}
  THEN (IF s.keys # {} THEN Ran(restart(s), <<"restart">>)
        ELSE Ran(s, << >>))
  ELSE IF s.gameState = PAUSED
  THEN (IF isKeyPressed(s, "p") THEN Ran(togglePause(s, PLAYING), << >>)
        ELSE Ran(s, << >>))
  ELSE IF isKeyPressed(s, "p") THEN Ran(togglePause(s, PAUSED), << >>)
  ELSE playingTick(s, dt, hit, short)

(* update(dt): hit is what the player overlaps when handleCollisions      *)
(* runs; the result is the scene the call leaves and the calls it made    *)
update(s, dt, hit, short) ==
  IF s.gameState = AWAITING_MUSIC THEN Ran(s, << >>)
  ELSE IF s.gameState \in {GAME_OVER, VICTORY}
  THEN (IF isKeyPressed(s, "r") THEN Ran(restart(s), <<"restart">>)
        ELSE Ran(s, << >>))
  ELSE IF s.gameState = PAUSED
  THEN (IF isKeyPressed(s, "p") THEN Ran(togglePause(s, PLAYING), << >>)
        ELSE Ran(s, << >>))
  ELSE IF isKeyPressed(s, "p") THEN Ran(togglePause(s, PAUSED), << >>)
  ELSE playingTick(s, dt, hit, short)

(* ---------- MainScene.startGame ---------- *)
startGame(s) == [s EXCEPT !.gameState = PLAYING, !.gameTimer = 0]

(* ---------- the scene as one record ---------- *)
Scene ==
  [entities |-> entities, player |-> player, gameState |-> gameState,
   score |-> score, pickupSpawnTimer |-> pickupSpawnTimer,
   currentRoom |-> currentRoom, roomsCleared |-> roomsCleared,
   enemiesSpawnedInRoom |-> enemiesSpawnedInRoom,
   musicDuration |-> musicDuration, gameTimer |-> gameTimer,
   flamesExtinguished |-> flamesExtinguished, totalFlames |-> totalFlames,
   keys |-> keys, uploaderVisible |-> uploaderVisible, bgMusic |-> bgMusic,
   nextObj |-> nextObj,
   toggledThisPress |-> toggledThisPress]

SetScene(s) ==
  /\ entities' = s.entities
  /\ player' = s.player
  /\ gameState' = s.gameState
  /\ score' = s.score
  /\ pickupSpawnTimer' = s.pickupSpawnTimer
  /\ currentRoom' = s.currentRoom
  /\ roomsCleared' = s.roomsCleared
  /\ enemiesSpawnedInRoom' = s.enemiesSpawnedInRoom
  /\ musicDuration' = s.musicDuration
  /\ gameTimer' = s.gameTimer
  /\ flamesExtinguished' = s.flamesExtinguished
  /\ totalFlames' = s.totalFlames
  /\ keys' = s.keys
  /\ uploaderVisible' = s.uploaderVisible
  /\ bgMusic' = s.bgMusic
  /\ nextObj' = s.nextObj
  /\ toggledThisPress' = s.toggledThisPress

(* state after new MainScene(canvas) *)
NewScene ==
  init([entities |-> << >>, player |-> 0, gameState |-> AWAITING_MUSIC,
        score |-> 0, pickupSpawnTimer |-> 0, currentRoom |-> 0,
        roomsCleared |-> {}, enemiesSpawnedInRoom |-> 0,
        musicDuration |-> 0, gameTimer |-> 0, flamesExtinguished |-> 0,
        totalFlames |-> 0, keys |-> {}, uploaderVisible |-> TRUE,
        bgMusic |-> NoMusic,
        nextObj |-> 1, toggledThisPress |-> FALSE])

(* the scene after an upload of a file of d ms and startGame() *)
Started(d) ==
  startGame([NewScene EXCEPT !.musicDuration = d,
                             !.totalFlames = totalRooms * enemiesPerRoom,
                             !.bgMusic = [Audio(d) EXCEPT !.metadata = TRUE,
                                                          !.source = TRUE,
                                                          !.waiting = FALSE],
                             !.uploaderVisible = FALSE])

(* the scene is s *)
SceneIs(s) ==
  /\ entities = s.entities
  /\ player = s.player
  /\ gameState = s.gameState
  /\ score = s.score
  /\ pickupSpawnTimer = s.pickupSpawnTimer
  /\ currentRoom = s.currentRoom
  /\ roomsCleared = s.roomsCleared
  /\ enemiesSpawnedInRoom = s.enemiesSpawnedInRoom
  /\ musicDuration = s.musicDuration
  /\ gameTimer = s.gameTimer
  /\ flamesExtinguished = s.flamesExtinguished
  /\ totalFlames = s.totalFlames
  /\ keys = s.keys
  /\ uploaderVisible = s.uploaderVisible
  /\ bgMusic = s.bgMusic
  /\ nextObj = s.nextObj
  /\ toggledThisPress = s.toggledThisPress

SceneInit ==
  /\ entities = NewScene.entities
  /\ player = NewScene.player
  /\ gameState = NewScene.gameState
  /\ score = NewScene.score
  /\ pickupSpawnTimer = NewScene.pickupSpawnTimer
  /\ currentRoom = NewScene.currentRoom
  /\ roomsCleared = NewScene.roomsCleared
  /\ enemiesSpawnedInRoom = NewScene.enemiesSpawnedInRoom
  /\ musicDuration = NewScene.musicDuration
  /\ gameTimer = NewScene.gameTimer
  /\ flamesExtinguished = NewScene.flamesExtinguished
  /\ totalFlames = NewScene.totalFlames
  /\ keys = NewScene.keys
  /\ uploaderVisible = NewScene.uploaderVisible
  /\ bgMusic = NewScene.bgMusic
  /\ nextObj = NewScene.nextObj
  /\ toggledThisPress = NewScene.toggledThisPress
  /\ loading = << >>
  /\ timers = 0

(* no physics call is under test in the scene specification *)
NoCall ==
  /\ fn = "none"
  /\ pc = "return"
  /\ bodies = << >>
  /\ dtArg = 0
  /\ result = FALSE

(* the engine's fields and the frame callbacks it has requested *)
Engine ==
  [isRunning |-> isRunning, lastTime |-> lastTime, pending |-> pending]

SetEngine(e) ==
  /\ isRunning' = e.isRunning
  /\ lastTime' = e.lastTime
  /\ pending' = e.pending

(* new GameEngine() at time 0: the loop is not running, no frame callback *)
(* is requested, lastTime is 0                                            *)
NewEngine == [isRunning |-> FALSE, lastTime |-> 0, pending |-> 0]

(* start(): now is performance.now(); one frame callback is requested *)
start(e, now) ==
  [e EXCEPT !.isRunning = TRUE, !.lastTime = now, !.pending = e.pending + 1]

stop(e) == [e EXCEPT !.isRunning = FALSE]

(* the engine is e, at time 0 and between two frames; no call of the     *)
(* scene has been observed                                                *)
EngineIs(e) ==
  /\ isRunning = e.isRunning
  /\ lastTime = e.lastTime
  /\ pending = e.pending
  /\ deltaTime = 0
  /\ updatesThisFrame = 0
  /\ rendersThisFrame = 0
  /\ clock = 0
  /\ frameTime = 0
  /\ frameDue = FALSE
  /\ running = 0

(* state after new GameEngine() *)
EngineInit == EngineIs(NewEngine)

(* state after new GameEngine() and start(), the two lines of the page's  *)
(* script: the loop is running and the first frame callback is requested  *)
EngineStarted == EngineIs(start(NewEngine, 0))

(* state after new EntityManager(), before any entity was created *)
StoreInit ==
  /\ heap = << >>
  /\ emap = << >>
  /\ live = {}

(* no call of update has been recorded *)
NoTrace == calls = << >>

(* the page has constructed and started the engine; nothing has happened *)
(* since                                                                  *)
Init == SceneInit /\ NoCall /\ EngineStarted /\ StoreInit /\ NoTrace

(* ---------- actions ---------- *)
(* InputSystem keydown listener *)
KeyDown(k) ==
  /\ k \notin keys
  /\ Cardinality(keys) < MaxHeldKeys
  /\ keys' = keys \cup {k}
  /\ UNCHANGED <<entities, player, gameState, score, pickupSpawnTimer,
                 currentRoom, roomsCleared, enemiesSpawnedInRoom,
                 musicDuration, gameTimer, flamesExtinguished, totalFlames,
                 uploaderVisible, bgMusic, loading, timers, nextObj, toggledThisPress>>
  /\ UNCHANGED <<physicsVars, engineVars, storeVars, traceVars>>

(* InputSystem keyup listener *)
KeyUp(k) ==
  /\ k \in keys
  /\ keys' = keys \ {k}
  /\ toggledThisPress' = IF k = "p" THEN FALSE ELSE toggledThisPress
  /\ UNCHANGED <<entities, player, gameState, score, pickupSpawnTimer,
                 currentRoom, roomsCleared, enemiesSpawnedInRoom,
                 musicDuration, gameTimer, flamesExtinguished, totalFlames,
                 uploaderVisible, bgMusic, loading, timers, nextObj>>
  /\ UNCHANGED <<physicsVars, engineVars, storeVars, traceVars>>

(* MusicUploader.handleFileSelect -> MainScene.handleMusicUpload ->        *)
(* AudioManager.loadBackgroundMusic up to its await: the music so far is   *)
(* stopped and bgMusic is a new element for the file, whose metadata will  *)
(* report d. The change event is not tied to the uploader being shown.     *)
SelectFile(d) ==
  /\ Len(loading) + timers < MaxPending
  /\ loading' = Append(loading, d)
  /\ bgMusic' = Audio(d)
  /\ UNCHANGED <<entities, player, gameState, score, pickupSpawnTimer,
                 currentRoom, roomsCleared, enemiesSpawnedInRoom,
                 musicDuration, gameTimer, flamesExtinguished, totalFlames,
                 keys, uploaderVisible, timers, nextObj, toggledThisPress>>
  /\ UNCHANGED <<physicsVars, engineVars, storeVars, traceVars>>

DropAt(q, i) == [j \in 1..(Len(q) - 1) |-> IF j < i THEN q[j] ELSE q[j + 1]]

(* upload i waits on the element that is bgMusic now *)
IsLatest(i) == bgMusic.element /\ bgMusic.waiting /\ i = Len(loading)

(* the 'loadedmetadata' event of the element of upload i: the await of     *)
(* loadBackgroundMusic resolves and the rest of it and of                  *)
(* handleMusicUpload runs. The duration is read from this.bgMusic, the     *)
(* element of the latest upload: known tells whether that element has its  *)
(* metadata already when its own event has not been delivered yet.         *)
(* loadBackgroundMusic throws, and handleMusicUpload changes the status    *)
(* line only, when bgMusic is null or has a MediaElementSource already.    *)
MusicLoaded(i, known) ==
  /\ i \in DOMAIN loading
  /\ known => bgMusic.element /\ bgMusic.waiting /\ ~bgMusic.metadata
               /\ ~IsLatest(i)
  /\ loading' = DropAt(loading, i)
  /\ LET a == [bgMusic EXCEPT
                 !.metadata = bgMusic.metadata \/ IsLatest(i) \/ known,
                 !.waiting = bgMusic.waiting /\ ~IsLatest(i)]
     IN IF ~bgMusic.element
        THEN UNCHANGED <<bgMusic, musicDuration, totalFlames, timers>>
        ELSE IF bgMusic.source
        THEN /\ bgMusic' = a
             /\ UNCHANGED <<musicDuration, totalFlames, timers>>
        ELSE /\ bgMusic' = [a EXCEPT !.source = TRUE]
             /\ musicDuration' = duration(a)
             /\ totalFlames' = totalRooms * enemiesPerRoom
             /\ timers' = timers + 1
  /\ UNCHANGED <<entities, player, gameState, score, pickupSpawnTimer,
                 currentRoom, roomsCleared, enemiesSpawnedInRoom, gameTimer,
                 flamesExtinguished, keys, uploaderVisible, nextObj,
                 toggledThisPress>>
  /\ UNCHANGED <<physicsVars, engineVars, storeVars, traceVars>>

(* the 'error' event of the element of upload i: the await rejects and     *)
(* handleMusicUpload changes the status line only                          *)
MusicFailed(i) ==
  /\ i \in DOMAIN loading
  /\ loading' = DropAt(loading, i)
  /\ bgMusic' = [bgMusic EXCEPT !.waiting = bgMusic.waiting /\ ~IsLatest(i)]
  /\ UNCHANGED <<entities, player, gameState, score, pickupSpawnTimer,
                 currentRoom, roomsCleared, enemiesSpawnedInRoom,
                 musicDuration, gameTimer, flamesExtinguished, totalFlames,
                 keys, uploaderVisible, timers, nextObj, toggledThisPress>>
  /\ UNCHANGED <<physicsVars, engineVars, storeVars, traceVars>>

(* the setTimeout callback of handleMusicUpload: hide() and startGame() *)
StartTimer ==
  /\ timers > 0
  /\ timers' = timers - 1
  /\ SetScene([startGame(Scene) EXCEPT !.uploaderVisible = FALSE])
  /\ UNCHANGED loading
  /\ UNCHANGED <<physicsVars, engineVars, storeVars, traceVars>>

(* mutant: a frame callback that does not look at isRunning *)
gameLoop_noCheck(e, s, timestamp, hit, short) ==
  LET dt == cappedDelta(timestamp, e.lastTime)
      r == update(s, dt, hit, short)
  IN [engine |-> [e EXCEPT !.lastTime = timestamp, !.pending = e.pending + 1],
      scene |-> r.scene,
      updates |-> <<dt>>,
      calls |-> r.calls]

(* gameLoop(timestamp) with the scene s: returns at once when the loop is *)
(* stopped; else computes the capped dt, stores the timestamp, calls      *)
(* scene.update(dt) and scene.render(ctx) and requests the next frame.    *)
(* hit is what the player overlaps in this update and short the timers    *)
(* whose sum of doubles falls short; updates holds the dt of the          *)
(* scene.update call made, if one was made, and calls what that call did. *)
gameLoop(e, s, timestamp, hit, short) ==
  IF ~e.isRunning
  THEN [engine |-> e, scene |-> s, updates |-> << >>, calls |-> << >>]
  ELSE LET dt == cappedDelta(timestamp, e.lastTime)
           r == update(s, dt, hit, short)
       IN [engine |-> [e EXCEPT !.lastTime = timestamp,
                                !.pending = e.pending + 1],
           scene |-> r.scene,
           updates |-> <<dt>>,
           calls |-> r.calls]

(* the timers whose exact sum is at its threshold in an update of s by dt *)
AtThreshold(s, dt) ==
  {n \in Timers :
     \/ n = "gameTimer"
          /\ s.musicDuration > 0 /\ s.gameTimer + dt = s.musicDuration
     \/ n = "pickupSpawnTimer"
          /\ s.pickupSpawnTimer + dt = pickupSpawnInterval}

(* the sums of doubles that can fall short in the frame of timestamp *)
Shortfalls(timestamp) ==
  SUBSET AtThreshold(Scene, cappedDelta(timestamp, lastTime))

(* the browser's next frame runs the frame callback the engine has       *)
(* requested: gameLoop(timestamp), the engine and the scene in one step.  *)
(* The timestamp of the frame is an input; the browser's clock and what   *)
(* is observed of the calls are followed in the engine specification.     *)
Tick(timestamp, hit, short) ==
  /\ pending > 0
  /\ \E r \in {gameLoop([Engine EXCEPT !.pending = pending - 1], Scene,
                         timestamp, hit, short)} :
       \E s \in {r.scene} :
         /\ s.nextObj < FirstObj(s.nextObj - 1) + MaxObjs
         /\ s.pickupSpawnTimer <= MaxPlayTime
         /\ s.pickupSpawnTimer >= 0 - MaxRewind
         /\ s.gameTimer >= 0 - MaxRewind
         /\ SetEngine(r.engine)
         /\ SetScene(s)
  /\ UNCHANGED <<loading, timers>>
  /\ UNCHANGED <<clock, frameTime, frameDue, running, deltaTime,
                 updatesThisFrame, rendersThisFrame>>
  /\ UNCHANGED <<physicsVars, storeVars, traceVars>>

(* the objects the player can overlap; the choice only matters in a tick   *)
(* that reaches handleCollisions                                           *)
Overlappable ==
  IF gameState = PLAYING /\ ~isKeyPressed(Scene, "p")
  THEN {entities[i].obj : i \in DOMAIN entities} \ {player}
  ELSE {}

Next ==
  \/ \E k \in Keys : KeyDown(k)
  \/ \E k \in Keys : KeyUp(k)
  \/ \E d \in Durations : SelectFile(d)
  \/ \E i \in DOMAIN loading : \E known \in BOOLEAN : MusicLoaded(i, known)
  \/ \E i \in DOMAIN loading : MusicFailed(i)
  \/ StartTimer
  \/ \E timestamp \in FrameTimes : \E hit \in SUBSET Overlappable : \E short \in Shortfalls(timestamp) : Tick(timestamp, hit, short)

Spec == Init /\ [][Next]_vars

(* ---------- observations used by the properties ---------- *)
PlayerHealth == PlayerEntity(entities, player).current

PlayerMax == PlayerEntity(entities, player).max

Objs(store) == {store[i].obj : i \in DOMAIN store}

Hostiles(store) == {store[i].obj : i \in {j \in DOMAIN store : IsEnemy(store[j])}}

Pickups(store) ==
  {store[i].obj : i \in {j \in DOMAIN store : store[j].color = PickupColor}}

IsTick == \E timestamp \in FrameTimes : \E hit \in SUBSET Overlappable : \E short \in Shortfalls(timestamp) : Tick(timestamp, hit, short)

(* the tick in which update() finds the timer at or past the duration *)
TimeUpStep ==
  /\ gameState = PLAYING
  /\ gameTimer' > gameTimer
  /\ musicDuration > 0
  /\ gameTimer' >= musicDuration

(* the tick in which update() calls restart() *)
RestartStep ==
  /\ gameState \in {GAME_OVER, VICTORY}
  /\ gameState' = AWAITING_MUSIC

(* ---------- claims ---------- *)

(* C1: whenever a hostile collision brings the player's health to 0 while  *)
(* the state is PLAYING, the state is GAME_OVER at the end of that tick.   *)
C1_DeathEndsGame ==
  [][(gameState = PLAYING /\ PlayerHealth > 0 /\ PlayerHealth' = 0)
       => gameState' = GAME_OVER]_vars

(* C2: in every reachable state the player's health is within 0 .. max.    *)
C2_HealthInRange == 0 <= PlayerHealth /\ PlayerHealth <= PlayerMax

C2_Witness ==
  /\ PlayerHealth = 0
  /\ flamesExtinguished = totalRooms * enemiesPerRoom
  /\ Pickups(entities) = {}

(* C3: gameState changes only along AWAITING_MUSIC -> PLAYING,             *)
(* PLAYING <-> PAUSED with the pause key down, PLAYING -> GAME_OVER,       *)
(* PLAYING -> VICTORY, and GAME_OVER or VICTORY -> AWAITING_MUSIC or       *)
(* PLAYING with the restart key down.                                      *)
C3_OnlyListedEdges ==
  [][gameState' # gameState =>
       \/ gameState = AWAITING_MUSIC /\ gameState' = PLAYING
       \/ gameState = PLAYING /\ gameState' = PAUSED /\ "p" \in keys
       \/ gameState = PAUSED /\ gameState' = PLAYING /\ "p" \in keys
       \/ gameState = PLAYING /\ gameState' \in {GAME_OVER, VICTORY}
       \/ /\ gameState \in {GAME_OVER, VICTORY}
          /\ gameState' \in {AWAITING_MUSIC, PLAYING}
          /\ "r" \in keys]_vars

(* C4: a call of update while PAUSED changes nothing of the simulation;    *)
(* the state stays PAUSED or, with the pause key down, becomes PLAYING.    *)
C4_PausedTickFrozen ==
  [][(gameState = PAUSED /\ IsTick) =>
       /\ UNCHANGED <<entities, player, score, gameTimer, pickupSpawnTimer,
                      currentRoom, roomsCleared, enemiesSpawnedInRoom,
                      flamesExtinguished, musicDuration, totalFlames>>
       /\ \/ gameState' = PAUSED /\ "p" \notin keys
          \/ gameState' = PLAYING /\ "p" \in keys]_vars

C4_Witness ==
  /\ gameState = PLAYING
  /\ "p" \in keys
  /\ toggledThisPress
  /\ gameTimer > 0

(* C5: one press of P (down, held over any number of ticks, up) toggles    *)
(* between PLAYING and PAUSED at most once.                                *)
C5_OneTogglePerPress ==
  [][(/\ "p" \in keys
      /\ \/ gameState = PLAYING /\ gameState' = PAUSED
         \/ gameState = PAUSED /\ gameState' = PLAYING
      /\ IsTick) => ~toggledThisPress]_vars

(* C6: the tick in which the timer reaches the music duration ends in      *)
(* VICTORY exactly when all totalRooms x enemiesPerRoom flames are         *)
(* extinguished and in GAME_OVER otherwise, and VICTORY is entered in no   *)
(* other step.                                                             *)
C6_VictoryIffAllFlames ==
  [][/\ TimeUpStep =>
          IF flamesExtinguished >= totalRooms * enemiesPerRoom
          THEN gameState' = VICTORY
          ELSE gameState' = GAME_OVER
     /\ (gameState # VICTORY /\ gameState' = VICTORY) => TimeUpStep]_vars

C6_Witness ==
  /\ gameState = VICTORY
  /\ flamesExtinguished = totalRooms * enemiesPerRoom

(* C7: right after restart the store holds exactly one player at full      *)
(* health, enemiesPerRoom hostiles and one pickup, all of them new         *)
(* objects, and score, timers, flame count and room state are reset.       *)
C7_RestartReinitialises ==
  [][RestartStep =>
       /\ Len(entities') = enemiesPerRoom + 2
       /\ Cardinality({i \in DOMAIN entities' : entities'[i].id = PlayerId}) = 1
       /\ PlayerHealth' = maxHealth /\ PlayerMax' = maxHealth
       /\ Cardinality(Hostiles(entities')) = enemiesPerRoom
       /\ Cardinality(Pickups(entities')) = 1
       /\ Objs(entities') \cap Objs(entities) = {}
       /\ score' = 0 /\ gameTimer' = 0 /\ pickupSpawnTimer' = 0
       /\ flamesExtinguished' = 0
       /\ currentRoom' = 0 /\ roomsCleared' = {}]_vars

C7_Witness ==
  /\ gameState = AWAITING_MUSIC
  /\ player = MaxObjs + 1
  /\ score = 0

(* C8: the current room is never marked cleared while a hostile is in the  *)
(* store, it is marked at the end of the tick in which the hostile count   *)
(* reaches zero, and a room is only marked in a tick that removed a        *)
(* hostile by a collision reaction.                                        *)
C8_ClearedExactlyAtLastHostile ==
  [][/\ currentRoom' \in roomsCleared' => Hostiles(entities') = {}
     /\ (Hostiles(entities) # {} /\ Hostiles(entities') = {})
          => currentRoom' \in roomsCleared'
     /\ (roomsCleared' \ roomsCleared) # {}
          => /\ flamesExtinguished' > flamesExtinguished
             /\ Hostiles(entities) # {}]_vars

C8_Witness ==
  /\ currentRoom = 0
  /\ roomsCleared = {0}
  /\ flamesExtinguished = enemiesPerRoom
  /\ Hostiles(entities) = {}

(* C9 as stated: currentRoom changes only in a PLAYING tick in which the   *)
(* current room is cleared and E (to the next room) or Q (to the previous  *)
(* room) is down, and it stays within 0 .. totalRooms-1.                   *)
C9_Original ==
  [][/\ currentRoom' \in 0..(totalRooms - 1)
     /\ currentRoom' # currentRoom =>
          /\ gameState = PLAYING
          /\ currentRoom \in roomsCleared'
          /\ \/ "e" \in keys /\ currentRoom' = currentRoom + 1
             \/ "q" \in keys /\ currentRoom' = currentRoom - 1]_vars

(* C9 amended: currentRoom changes either as above or by restart (R down   *)
(* in GAME_OVER or VICTORY), which resets it to 0.                         *)
C9_RoomChangesOnlyWhenCleared ==
  [][/\ currentRoom' \in 0..(totalRooms - 1)
     /\ currentRoom' # currentRoom =>
          \/ /\ gameState = PLAYING
             /\ currentRoom \in roomsCleared'
             /\ \/ "e" \in keys /\ currentRoom' = currentRoom + 1
                \/ "q" \in keys /\ currentRoom' = currentRoom - 1
          \/ /\ gameState \in {GAME_OVER, VICTORY}
             /\ "r" \in keys
             /\ gameState' = AWAITING_MUSIC
             /\ currentRoom' = 0]_vars

C9_Witness ==
  /\ currentRoom = totalRooms - 1
  /\ gameState = PLAYING

(* C10: the store starts with enemiesPerRoom hostiles; a restart and a     *)
(* transition into a room that is not cleared add exactly enemiesPerRoom   *)
(* new hostiles, a transition into a cleared room adds none, and no other  *)
(* step adds a hostile.                                                    *)
NewHostiles == Hostiles(entities') \ Objs(entities)

C10_BatchPerRoom ==
  /\ Cardinality(Hostiles(entities)) = enemiesPerRoom
  /\ [][/\ RestartStep => Cardinality(NewHostiles) = enemiesPerRoom
        /\ (gameState = PLAYING /\ currentRoom' # currentRoom) =>
             Cardinality(NewHostiles) =
               IF currentRoom' \in roomsCleared' THEN 0 ELSE enemiesPerRoom
        /\ NewHostiles # {} =>
             \/ RestartStep
             \/ gameState = PLAYING /\ currentRoom' # currentRoom]_vars

C10_Witness ==
  /\ currentRoom = 0
  /\ 1 \in roomsCleared
  /\ 2 \in roomsCleared
  /\ Hostiles(entities) = {}

(* the pickups and hostiles of the store that a step removes *)
TakenPickups == Pickups(entities) \ Objs(entities')

TakenHostiles == Hostiles(entities) \ Objs(entities')

Max(a, b) == IF a > b THEN a ELSE b

(* C11: a step from PLAYING that takes pickups out of the store (a tick    *)
(* in which the player overlaps them) sets health to                       *)
(* min(health + healAmount, max) per pickup when it takes no hostile,      *)
(* adds the pickup reward (10) per pickup taken to the score, and the      *)
(* count of the pickups that were in the store drops by one per pickup     *)
(* taken.                                                                  *)
C11_PickupHeals ==
  [][(gameState = PLAYING /\ TakenPickups # {}) =>
       /\ TakenHostiles = {} =>
            PlayerHealth' = Min(PlayerHealth
                                  + healAmount * Cardinality(TakenPickups),
                                PlayerMax)
       /\ score' = score + pickupScore * Cardinality(TakenPickups)
                         + enemyScore * Cardinality(TakenHostiles)
       /\ Cardinality(Pickups(entities') \cap Objs(entities)) =
            Cardinality(Pickups(entities)) - Cardinality(TakenPickups)
       /\ PlayerMax' = PlayerMax]_vars

C11_Witness ==
  /\ gameState = PLAYING
  /\ Pickups(entities) = {}
  /\ PlayerHealth = 70
  /\ flamesExtinguished = 5
  /\ score = 5 * enemyScore + pickupScore

(* C12: a step from PLAYING that takes hostiles (and no pickup) out of the *)
(* store subtracts the fixed damage (10) from the health per hostile.     *)
C12_Original ==
  [][(gameState = PLAYING /\ TakenHostiles # {} /\ TakenPickups = {}) =>
       PlayerHealth' = PlayerHealth
                         - enemyDamage * Cardinality(TakenHostiles)]_vars

(***************************************************************************)
(* PhysicsSystem (src/game/core/physics.ts) and the adversary              *)
(* controller MainScene.updateEnemies, as functions of the entities they   *)
(* are handed.  A behaviour is one call: the initial state holds the       *)
(* function and its arguments, the step runs the function.                 *)
(*                                                                         *)
(* Numbers are integers: positions and sizes in pixels, velocities in      *)
(* pixels per second, accelerations in pixels per second squared, dt in    *)
(* milliseconds, friction as a fraction num/den.  The velocity clamp of    *)
(* PhysicsSystem.update is computed in the doubles of the code, rounding   *)
(* included; everywhere else the arguments are drawn from values on which  *)
(* every product and quotient of the code is a whole number, so the        *)
(* integer operators compute the same values as the code's doubles.        *)
(***************************************************************************)

(* ---------- program constants of the physics ---------- *)
canvasWidth == 640
canvasHeight == 360
maxVelocity == 500
enemySpeed == 100
defaultSize == 32
frictionNum == 4       \* config.physics.friction = 0.8 = 4/5
frictionDen == 5

(* ---------- bounds of the physics inputs ---------- *)
GridN == 4             \* box B lies on the grid -2*GridN .. 2*GridN
SqrtMax == 2048        \* upper end of the square-root search

Vec(x, y) == [x |-> x, y |-> y]

AllComps == {"transform", "physics", "sprite", "collider"}

(* an entity with its transform, physics, sprite and collider components;  *)
(* heard is the list of the ids its onCollision callback was called with,  *)
(* seen what the callback found in the entity it was called with           *)
Body(id, color, pos, vel, w, h) ==
  [id |-> id, active |-> TRUE, comps |-> AllComps, color |-> color,
   position |-> pos, velocity |-> vel, acceleration |-> Vec(0, 0),
   friction |-> [num |-> frictionNum, den |-> frictionDen],
   sprite |-> [width |-> w, height |-> h],
   collider |-> [width |-> w, height |-> h, isTrigger |-> FALSE,
                 onCollision |-> TRUE],
   heard |-> << >>, seen |-> << >>]

(* ---------- arithmetic ---------- *)
(* a / b, for the whole quotients the inputs produce *)
Quot(a, b) == IF a >= 0 THEN a \div b ELSE -((-a) \div b)

(* v * dt with dt in seconds; with dt = 0 the product is 0 whatever v is *)
MulDt(v, dt) == IF dt = 0 THEN 0 ELSE Quot(v * dt, 1000)

RECURSIVE SqrtIn(_, _, _)
SqrtIn(n, lo, hi) ==
  IF lo >= hi THEN lo
  ELSE LET mid == (lo + hi + 1) \div 2
       IN IF mid * mid <= n THEN SqrtIn(n, mid, hi) ELSE SqrtIn(n, lo, mid - 1)

(* the whole part of Math.sqrt(n) *)
Sqrt(n) == SqrtIn(n, 0, SqrtMax)

(* ---------- the doubles of the velocity clamp ---------- *)
(* A natural number of any size is the sequence of its digits in base      *)
(* Base, lowest digit first, without leading zeros.  A double is a sign, a *)
(* mantissa of at most MantissaBits bits and an exponent of 2; results are *)
(* rounded to the nearest, ties to even, as IEEE 754 prescribes for /, *   *)
(* and Math.sqrt.  Zero has the empty mantissa; infinities, NaN and        *)
(* subnormal numbers do not occur at the speeds of the inputs.             *)
LimbBits == 15
MantissaBits == 53

Base == 2 ^ LimbBits

RECURSIVE Big(_)
Big(n) == IF n = 0 THEN << >> ELSE <<n % Base>> \o Big(n \div Base)

RECURSIVE Small(_)
Small(a) == IF a = << >> THEN 0 ELSE a[1] + Base * Small(Tail(a))

Digit(a, i) == IF i <= Len(a) THEN a[i] ELSE 0

RECURSIVE Trim(_)
Trim(a) ==
  IF a # << >> /\ a[Len(a)] = 0 THEN Trim(SubSeq(a, 1, Len(a) - 1)) ELSE a

RECURSIVE Zeros(_)
Zeros(n) == IF n = 0 THEN << >> ELSE <<0>> \o Zeros(n - 1)

RECURSIVE Bits(_)
Bits(n) == IF n = 0 THEN 0 ELSE 1 + Bits(n \div 2)

BitLen(a) ==
  IF a = << >> THEN 0 ELSE LimbBits * (Len(a) - 1) + Bits(a[Len(a)])

Odd(a) == a # << >> /\ a[1] % 2 = 1

RECURSIVE AddFrom(_, _, _, _)
AddFrom(a, b, i, carry) ==
  IF i > Len(a) /\ i > Len(b) THEN Big(carry)
  ELSE LET d == Digit(a, i) + Digit(b, i) + carry
       IN <<d % Base>> \o AddFrom(a, b, i + 1, d \div Base)

BigAdd(a, b) == AddFrom(a, b, 1, 0)

RECURSIVE SubFrom(_, _, _, _)
SubFrom(a, b, i, borrow) ==
  IF i > Len(a) THEN << >>
  ELSE LET d == a[i] - Digit(b, i) - borrow
       IN IF d < 0 THEN <<d + Base>> \o SubFrom(a, b, i + 1, 1)
          ELSE <<d>> \o SubFrom(a, b, i + 1, 0)

(* a - b for a >= b *)
BigSub(a, b) == Trim(SubFrom(a, b, 1, 0))

RECURSIVE LessAt(_, _, _)
LessAt(a, b, i) ==
  IF i = 0 THEN FALSE
  ELSE IF a[i] # b[i] THEN a[i] < b[i]
  ELSE LessAt(a, b, i - 1)

BigLess(a, b) ==
  IF Len(a) # Len(b) THEN Len(a) < Len(b) ELSE LessAt(a, b, Len(a))

RECURSIVE TimesFrom(_, _, _, _)
TimesFrom(a, k, i, carry) ==
  IF i > Len(a) THEN Big(carry)
  ELSE LET d == a[i] * k + carry
       IN <<d % Base>> \o TimesFrom(a, k, i + 1, d \div Base)

(* a * k for a digit k *)
BigTimes(a, k) == IF k = 0 THEN << >> ELSE TimesFrom(a, k, 1, 0)

RECURSIVE MulFrom(_, _, _)
MulFrom(a, b, i) ==
  IF i > Len(b) THEN << >>
  ELSE BigAdd(BigTimes(a, b[i]), <<0>> \o MulFrom(a, b, i + 1))

BigMul(a, b) == Trim(MulFrom(a, b, 1))

(* a * 2^k *)
ShiftLeft(a, k) ==
  IF a = << >> THEN a
  ELSE Zeros(k \div LimbBits) \o BigTimes(a, 2 ^ (k % LimbBits))

(* a \div 2 *)
Half(a) ==
  Trim([i \in 1..Len(a) |->
          a[i] \div 2 + (Digit(a, i + 1) % 2) * (Base \div 2)])

(* the k lowest bits of n dropped; guard is the highest bit dropped and    *)
(* sticky tells whether anything below it was not zero                     *)
RECURSIVE Narrow(_, _)
Narrow(s, k) ==
  IF k = 0 THEN s
  ELSE Narrow([man |-> Half(s.man), guard |-> Odd(s.man),
               sticky |-> s.sticky \/ s.guard], k - 1)

(* the double nearest to (n + f) * 2^e, where 0 <= f < 1 and sticky tells  *)
(* whether f > 0; n has more than MantissaBits bits whenever f > 0         *)
Rounded(n, e, sticky) ==
  LET k == IF BitLen(n) > MantissaBits THEN BitLen(n) - MantissaBits ELSE 0
      r == Narrow([man |-> n, guard |-> FALSE, sticky |-> sticky], k)
      up == r.guard /\ (r.sticky \/ Odd(r.man))
  IN [neg |-> FALSE, exp |-> e + k,
      man |-> IF up THEN BigAdd(r.man, <<1>>) ELSE r.man]

ToDouble(n) ==
  [neg |-> n < 0, man |-> Big(IF n < 0 THEN -n ELSE n), exp |-> 0]

RECURSIVE Oddest(_, _)
Oddest(m, e) ==
  IF m = << >> \/ Odd(m) THEN [man |-> m, exp |-> e]
  ELSE Oddest(Half(m), e + 1)

(* a double as a number of the model: the integer when it is whole, else   *)
(* its sign, odd mantissa and exponent                                     *)
Num(d) ==
  LET c == Oddest(d.man, d.exp)
  IN IF c.man = << >> THEN 0
     ELSE IF c.exp >= 0
     THEN (IF d.neg THEN -1 ELSE 1) * Small(c.man) * 2 ^ c.exp
     ELSE [neg |-> d.neg, man |-> c.man, exp |-> c.exp]

RECURSIVE RootBits(_, _)
(* k more bits of a square root, from s, the root so far and the rest of   *)
(* the radicand                                                            *)
RootBits(s, k) ==
  IF k = 0 THEN s
  ELSE LET r4 == BigTimes(s.rest, 4)
           t == BigAdd(BigTimes(s.root, 4), <<1>>)
       IN IF BigLess(r4, t)
          THEN RootBits([root |-> BigTimes(s.root, 2), rest |-> r4], k - 1)
          ELSE RootBits([root |-> BigAdd(BigTimes(s.root, 2), <<1>>),
                         rest |-> BigSub(r4, t)], k - 1)

(* Math.sqrt(n) for a whole n >= 0 *)
DoubleSqrt(n) ==
  LET whole == Sqrt(n)
      r == RootBits([root |-> Big(whole), rest |-> Big(n - whole * whole)],
                    MantissaBits)
  IN Rounded(r.root, -MantissaBits, r.rest # << >>)

RECURSIVE QuotBits(_, _, _)
(* k more bits of a quotient by m, from s, the quotient so far and the     *)
(* rest of the dividend, which is below m                                  *)
QuotBits(s, m, k) ==
  IF k = 0 THEN s
  ELSE LET r2 == BigTimes(s.rest, 2)
       IN IF BigLess(r2, m)
          THEN QuotBits([quot |-> BigTimes(s.quot, 2), rest |-> r2], m, k - 1)
          ELSE QuotBits([quot |-> BigAdd(BigTimes(s.quot, 2), <<1>>),
                         rest |-> BigSub(r2, m)], m, k - 1)

(* n / d for a whole n and a double d > 0 *)
DoubleDiv(n, d) ==
  LET x == Big(IF n < 0 THEN -n ELSE n)
      up == IF BitLen(x) >= BitLen(d.man)
            THEN BitLen(x) - BitLen(d.man) + 1 ELSE 0
      m == ShiftLeft(d.man, up)
      j == BitLen(m) - BitLen(x) - 1
      k == MantissaBits + 3
      q == QuotBits([quot |-> << >>, rest |-> ShiftLeft(x, j)], m, k)
  IN IF n = 0 THEN ToDouble(0)
     ELSE [Rounded(q.quot, up - d.exp - j - k, q.rest # << >>)
             EXCEPT !.neg = n < 0]

(* d * k for a double d and a whole k > 0 *)
DoubleTimes(d, k) ==
  [Rounded(BigTimes(d.man, k), d.exp, FALSE) EXCEPT !.neg = d.neg]

(* d > k for a double d >= 0 and a whole k >= 0 *)
DoubleAbove(d, k) ==
  IF d.exp >= 0 THEN BigLess(Big(k), ShiftLeft(d.man, d.exp))
  ELSE BigLess(ShiftLeft(Big(k), -d.exp), d.man)

(* ---------- PhysicsSystem.update ---------- *)
(* velocity after acceleration and friction *)
afterFriction(e, dt) ==
  LET vx == e.velocity.x + MulDt(e.acceleration.x, dt)
      vy == e.velocity.y + MulDt(e.acceleration.y, dt)
  IN Vec(Quot(vx * e.friction.num, e.friction.den),
         Quot(vy * e.friction.num, e.friction.den))

(* mutant: each component is capped on its own *)
clampVelocity_perAxis(v) ==
  Vec(ToDouble(IF v.x > maxVelocity THEN maxVelocity
               ELSE IF v.x < -maxVelocity THEN -maxVelocity ELSE v.x),
      ToDouble(IF v.y > maxVelocity THEN maxVelocity
               ELSE IF v.y < -maxVelocity THEN -maxVelocity ELSE v.y))

(* the clamp of a whole velocity v, as a pair of doubles:                  *)
(* speed = Math.sqrt(v.x ** 2 + v.y ** 2), and when speed > maxVel each    *)
(* component becomes (component / speed) * maxVel                          *)
clampVelocity(v) ==
  LET speed == DoubleSqrt(v.x * v.x + v.y * v.y)
  IN IF DoubleAbove(speed, maxVelocity)
     THEN Vec(DoubleTimes(DoubleDiv(v.x, speed), maxVelocity),
              DoubleTimes(DoubleDiv(v.y, speed), maxVelocity))
     ELSE Vec(ToDouble(v.x), ToDouble(v.y))

(* a pair of doubles as a velocity of the model *)
Stored(w) == Vec(Num(w.x), Num(w.y))

(* the four boundary tests of one axis pair, in the order of the code;     *)
(* both axes use the sprite's width                                        *)
keepInBounds(e) ==
  LET size == IF "sprite" \in e.comps THEN e.sprite.width ELSE defaultSize
      x1 == IF e.position.x < 0 THEN 0 ELSE e.position.x
      vx1 == IF e.position.x < 0 THEN 0 ELSE e.velocity.x
      x2 == IF x1 > canvasWidth - size THEN canvasWidth - size ELSE x1
      vx2 == IF x1 > canvasWidth - size THEN 0 ELSE vx1
      y1 == IF e.position.y < 0 THEN 0 ELSE e.position.y
      vy1 == IF e.position.y < 0 THEN 0 ELSE e.velocity.y
      y2 == IF y1 > canvasHeight - size THEN canvasHeight - size ELSE y1
      vy2 == IF y1 > canvasHeight - size THEN 0 ELSE vy1
  IN [e EXCEPT !.position = Vec(x2, y2), !.velocity = Vec(vx2, vy2)]

(* mutant: an inactive entity is integrated like an active one *)
updateOne_noSkip(e, dt) ==
  IF "transform" \notin e.comps \/ "physics" \notin e.comps THEN e
  ELSE LET v == Stored(clampVelocity(afterFriction(e, dt)))
       IN keepInBounds(
            [e EXCEPT !.velocity = v,
                      !.position = Vec(e.position.x + MulDt(v.x, dt),
                                       e.position.y + MulDt(v.y, dt))])

(* the body of the loop of PhysicsSystem.update *)
updateOne(e, dt) ==
  IF ~e.active THEN e
  ELSE IF "transform" \notin e.comps \/ "physics" \notin e.comps THEN e
  ELSE LET v == Stored(clampVelocity(afterFriction(e, dt)))
       IN keepInBounds(
            [e EXCEPT !.velocity = v,
                      !.position = Vec(e.position.x + MulDt(v.x, dt),
                                       e.position.y + MulDt(v.y, dt))])

PhysicsSystem_update(es, dt) == [i \in DOMAIN es |-> updateOne(es[i], dt)]

(* ---------- PhysicsSystem.isColliding ---------- *)
(* mutant: boxes that touch count as colliding *)
PhysicsSystem_isColliding_closed(a, b) ==
  IF \/ "transform" \notin a.comps \/ "transform" \notin b.comps
     \/ "collider" \notin a.comps \/ "collider" \notin b.comps
  THEN FALSE
  ELSE /\ a.position.x <= b.position.x + b.collider.width
       /\ a.position.x + a.collider.width >= b.position.x
       /\ a.position.y <= b.position.y + b.collider.height
       /\ a.position.y + a.collider.height >= b.position.y

PhysicsSystem_isColliding(a, b) ==
  IF \/ "transform" \notin a.comps \/ "transform" \notin b.comps
     \/ "collider" \notin a.comps \/ "collider" \notin b.comps
  THEN FALSE
  ELSE /\ a.position.x < b.position.x + b.collider.width
       /\ a.position.x + a.collider.width > b.position.x
       /\ a.position.y < b.position.y + b.collider.height
       /\ a.position.y + a.collider.height > b.position.y

(* ---------- PhysicsSystem.resolveCollision ---------- *)
stopX(e) ==
  IF "physics" \in e.comps THEN [e EXCEPT !.velocity.x = 0] ELSE e

stopY(e) ==
  IF "physics" \in e.comps THEN [e EXCEPT !.velocity.y = 0] ELSE e

(* the pair <<a, b>> after resolveCollision(a, b) *)
resolveCollision(a, b) ==
  IF \/ "transform" \notin a.comps \/ "transform" \notin b.comps
     \/ "collider" \notin a.comps \/ "collider" \notin b.comps
  THEN <<a, b>>
  ELSE
    LET overlapX == Min(a.position.x + a.collider.width - b.position.x,
                        b.position.x + b.collider.width - a.position.x)
        overlapY == Min(a.position.y + a.collider.height - b.position.y,
                        b.position.y + b.collider.height - a.position.y)
        separationX == Quot(overlapX, 2)
        separationY == Quot(overlapY, 2)
    IN IF overlapX < overlapY
       THEN IF a.position.x < b.position.x
            THEN <<stopX([a EXCEPT !.position.x = a.position.x - separationX]),
                   stopX([b EXCEPT !.position.x = b.position.x + separationX])>>
            ELSE <<stopX([a EXCEPT !.position.x = a.position.x + separationX]),
                   stopX([b EXCEPT !.position.x = b.position.x - separationX])>>
       ELSE IF a.position.y < b.position.y
            THEN <<stopY([a EXCEPT !.position.y = a.position.y - separationY]),
                   stopY([b EXCEPT !.position.y = b.position.y + separationY])>>
            ELSE <<stopY([a EXCEPT !.position.y = a.position.y + separationY]),
                   stopY([b EXCEPT !.position.y = b.position.y - separationY])>>

(* ---------- PhysicsSystem.checkCollisions ---------- *)
(* collider.onCollision(other), when the collider has a callback *)
notify(e, other) ==
  IF e.collider.onCollision
  THEN [e EXCEPT !.heard = Append(e.heard, other.id),
                 !.seen = Append(e.seen, [position |-> other.position,
                                          heard |-> other.heard])]
  ELSE e

(* mutant: a pair with a trigger is separated like any other pair *)
checkPair_resolveTriggers(es, i, j) ==
  IF PhysicsSystem_isColliding(es[i], es[j])
  THEN LET a == notify(es[i], es[j])
           b == notify(es[j], a)
           r == resolveCollision(a, b)
       IN [es EXCEPT ![i] = r[1], ![j] = r[2]]
  ELSE es

(* mutant: the pair is separated before the callbacks are called *)
checkPair_callbacksLast(es, i, j) ==
  IF PhysicsSystem_isColliding(es[i], es[j])
  THEN LET r == IF ~es[i].collider.isTrigger /\ ~es[j].collider.isTrigger
                THEN resolveCollision(es[i], es[j])
                ELSE <<es[i], es[j]>>
           a == notify(r[1], r[2])
           b == notify(r[2], a)
       IN [es EXCEPT ![i] = a, ![j] = b]
  ELSE es

(* the body of the inner loop for the pair (i, j) of collidable entities *)
checkPair(es, i, j) ==
  IF PhysicsSystem_isColliding(es[i], es[j])
  THEN LET a == notify(es[i], es[j])
           b == notify(es[j], a)
           r == IF ~a.collider.isTrigger /\ ~b.collider.isTrigger
                THEN resolveCollision(a, b)
                ELSE <<a, b>>
       IN [es EXCEPT ![i] = r[1], ![j] = r[2]]
  ELSE es

IsCollidable(e) ==
  e.active /\ "transform" \in e.comps /\ "collider" \in e.comps

RECURSIVE IndexSeq(_, _)
IndexSeq(es, i) ==
  IF i > Len(es) THEN << >>
  ELSE IF IsCollidable(es[i]) THEN <<i>> \o IndexSeq(es, i + 1)
  ELSE IndexSeq(es, i + 1)

(* mutant: the pairs of one i are taken from the last j down *)
RECURSIVE checkLoop_lastFirst(_, _, _, _)
checkLoop_lastFirst(es, c, i, j) ==
  IF i > Len(c) THEN es
  ELSE IF j > Len(c) THEN checkLoop_lastFirst(es, c, i + 1, i + 2)
  ELSE checkLoop_lastFirst(checkPair(es, c[i], c[Len(c) + i + 1 - j]), c, i, j + 1)

RECURSIVE checkLoop(_, _, _, _)
checkLoop(es, c, i, j) ==
  IF i > Len(c) THEN es
  ELSE IF j > Len(c) THEN checkLoop(es, c, i + 1, i + 2)
  ELSE checkLoop(checkPair(es, c[i], c[j]), c, i, j + 1)

checkCollisions(es) == checkLoop(es, IndexSeq(es, 1), 1, 2)

(* ---------- PhysicsSystem.direction and MainScene.updateEnemies ---------- *)
(* the vector from `from` to `to` and its length; the unit vector of the   *)
(* code is (d.x / length, d.y / length)                                    *)
direction(from, to) ==
  LET dx == to.x - from.x
      dy == to.y - from.y
      length == Sqrt(dx * dx + dy * dy)
  IN IF length = 0 THEN [x |-> 0, y |-> 0, length |-> 1]
     ELSE [x |-> dx, y |-> dy, length |-> length]

(* mutant: the pursuit velocity is added to the velocity the enemy had *)
chase_additive(e, target) ==
  IF "transform" \notin e.comps \/ "physics" \notin e.comps THEN e
  ELSE LET d == direction(e.position, target)
       IN [e EXCEPT !.velocity =
             Vec(e.velocity.x + Quot(d.x * enemySpeed, d.length),
                 e.velocity.y + Quot(d.y * enemySpeed, d.length))]

(* the body of the loop of updateEnemies *)
chase(e, target) ==
  IF "transform" \notin e.comps \/ "physics" \notin e.comps THEN e
  ELSE LET d == direction(e.position, target)
       IN [e EXCEPT !.velocity = Vec(Quot(d.x * enemySpeed, d.length),
                                     Quot(d.y * enemySpeed, d.length))]

(* es[1] is this.player, the entities of the store are es *)
updateEnemies(es) ==
  IF "transform" \notin es[1].comps THEN es
  ELSE [i \in DOMAIN es |->
          IF IsEnemy(es[i]) THEN chase(es[i], es[1].position) ELSE es[i]]

(* ---------- the arguments of the calls ---------- *)
Grid == {2 * k : k \in -GridN..GridN}

FineGrid == (-2 * GridN)..(2 * GridN)

SizesA == {4, 8}

SizesB == {2, 4, 8}

VelA == Vec(300, 400)

VelB == Vec(-400, 300)

BoxA(w, h) == Body(PlayerId, PlayerColor, Vec(0, 0), VelA, w, h)

BoxB(x, y, w, h) == Body(1, EnemyColor, Vec(x, y), VelB, w, h)

WithTrigger(e, t, cb) ==
  [e EXCEPT !.collider.isTrigger = t, !.collider.onCollision = cb]

(* an entity that lost components or was deactivated *)
Stripped(e, comps, active) == [e EXCEPT !.comps = comps, !.active = active]

ResolveInputs ==
  {<<BoxA(wa, ha), BoxB(x, y, wb, hb)>> :
     wa \in SizesA, ha \in SizesA, x \in Grid, y \in Grid,
     wb \in SizesB, hb \in SizesB}

CheckInputs ==
  {<<WithTrigger(BoxA(wa, 8), ta, ca), WithTrigger(BoxB(x, y, wb, 4), tb, cb)>> :
     wa \in SizesA, x \in Grid, y \in Grid, wb \in SizesB,
     ta \in BOOLEAN, tb \in BOOLEAN, ca \in BOOLEAN, cb \in BOOLEAN}

IsCollidingInputs ==
  {<<BoxA(sa, sa), BoxB(x, y, wb, hb)>> :
     sa \in SizesB, x \in FineGrid, y \in FineGrid,
     wb \in SizesB, hb \in SizesB}

(* overlapping pairs in which one entity misses components or is inactive *)
StrippedInputs ==
  {<<Stripped(BoxA(8, 8), c, a), BoxB(2, 2, 8, 8)>> :
     c \in SUBSET AllComps, a \in BOOLEAN}
  \cup
  {<<BoxA(8, 8), Stripped(BoxB(2, 2, 8, 8), c, a)>> :
     c \in SUBSET AllComps, a \in BOOLEAN}

(* <<velocity x, velocity y, acceleration x, acceleration y, friction>> *)
Motions ==
  {<<0, 0, 0, 0, 4, 5>>, <<100, 0, 0, 0, 4, 5>>, <<-100, 0, 0, 0, 4, 5>>,
   <<0, 100, 0, 0, 4, 5>>, <<0, -100, 0, 0, 4, 5>>,
   <<750, 1000, 0, 0, 4, 5>>, <<-750, -1000, 0, 0, 4, 5>>,
   <<750, -1000, 0, 0, 4, 5>>, <<625, 0, 0, 0, 4, 5>>,
   <<1000, 0, 0, 0, 4, 5>>, <<0, -1000, 0, 0, 4, 5>>,
   <<0, 0, 500, 0, 4, 5>>, <<100, 0, 500, 0, 4, 5>>,
   <<300, 400, 0, 0, 1, 1>>, <<600, 800, 0, 0, 1, 1>>}

(* <<sprite width, sprite height, has a sprite>> *)
Sprites == {<<32, 32, TRUE>>, <<32, 48, TRUE>>, <<48, 32, TRUE>>,
            <<24, 24, TRUE>>, <<32, 32, FALSE>>}

EdgeX == {-32, 0, 300, canvasWidth - 32, canvasWidth}

EdgeY == {-32, 0, 180, canvasHeight - 32, canvasHeight}

Mover(x, y, m, sp) ==
  [Body(1, EnemyColor, Vec(x, y), Vec(m[1], m[2]), sp[1], sp[2]) EXCEPT
     !.acceleration = Vec(m[3], m[4]),
     !.friction = [num |-> m[5], den |-> m[6]],
     !.comps = IF sp[3] THEN AllComps ELSE AllComps \ {"sprite"}]

Bystander == Body(2, EnemyColor, Vec(100, 100), VelA, 32, 32)

UpdateInputs ==
  {<<Mover(x, y, m, sp), Bystander>> :
     x \in EdgeX, y \in EdgeY, m \in Motions, sp \in Sprites}

UpdateDts == {0, 50, 100}

(* motions whose speed after friction is no whole number: the clamp        *)
(* rounds; and one just below and one just above the maximum               *)
ObliqueMotions ==
  {<<800, 800, 0, 0, 1, 1>>, <<-700, 800, 0, 0, 1, 1>>,
   <<123, -987, 0, 0, 1, 1>>, <<353, 354, 0, 0, 1, 1>>,
   <<354, 354, 0, 0, 1, 1>>, <<1000, 1000, 0, 500, 4, 5>>}

(* they are updated with dt = 0, which leaves the position to the          *)
(* boundary tests alone                                                    *)
ObliqueInputs ==
  {<<Mover(x, 180, m, <<32, 32, TRUE>>), Bystander>> :
     x \in {-32, 300}, m \in ObliqueMotions}

(* player position minus hostile position *)
PursuitOffsets ==
  {<<0, 0>>, <<10, 0>>, <<-10, 0>>, <<0, 10>>, <<0, -10>>, <<6, 8>>,
   <<-6, 8>>, <<6, -8>>, <<-6, -8>>, <<8, 6>>, <<-8, -6>>, <<30, 40>>,
   <<-300, 400>>}

HostileAt == {Vec(0, 0), Vec(100, 50)}

APickup ==
  [Body(3, PickupColor, Vec(50, 50), Vec(0, 0), 24, 24) EXCEPT
     !.comps = AllComps \ {"physics"}, !.collider.isTrigger = TRUE]

PursuitInputs ==
  {<<Stripped(Body(PlayerId, PlayerColor, Vec(h.x + o[1], h.y + o[2]),
                   Vec(0, 0), 32, 32), cp, TRUE),
     Stripped(Body(1, EnemyColor, h, v, 32, 32), ce, TRUE),
     APickup>> :
     h \in HostileAt, o \in PursuitOffsets, v \in {Vec(0, 0), VelA},
     cp \in {AllComps, AllComps \ {"transform"}},
     ce \in {AllComps, AllComps \ {"transform"}, AllComps \ {"physics"}}}

(* ---------- one call ---------- *)
PhysicsInit ==
  /\ SceneInit
  /\ EngineInit
  /\ StoreInit
  /\ NoTrace
  /\ pc = "call"
  /\ result = FALSE
  /\ \/ fn = "update" /\ dtArg \in UpdateDts
        /\ bodies \in UpdateInputs \cup StrippedInputs
     \/ fn = "update" /\ dtArg = 0
        /\ bodies \in ObliqueInputs
     \/ fn = "checkCollisions" /\ dtArg = 0
        /\ bodies \in CheckInputs \cup StrippedInputs
     \/ fn = "resolveCollision" /\ dtArg = 0
        /\ bodies \in ResolveInputs \cup StrippedInputs
     \/ fn = "isColliding" /\ dtArg = 0
        /\ bodies \in IsCollidingInputs \cup StrippedInputs
     \/ fn = "updateEnemies" /\ dtArg = 0
        /\ bodies \in PursuitInputs

RunUpdate ==
  /\ pc = "call" /\ fn = "update"
  /\ bodies' = PhysicsSystem_update(bodies, dtArg)
  /\ pc' = "return"
  /\ UNCHANGED <<fn, dtArg, result>>
  /\ UNCHANGED <<sceneVars, engineVars, storeVars, traceVars>>

RunCheckCollisions ==
  /\ pc = "call" /\ fn = "checkCollisions"
  /\ bodies' = checkCollisions(bodies)
  /\ pc' = "return"
  /\ UNCHANGED <<fn, dtArg, result>>
  /\ UNCHANGED <<sceneVars, engineVars, storeVars, traceVars>>

RunResolveCollision ==
  /\ pc = "call" /\ fn = "resolveCollision"
  /\ bodies' = resolveCollision(bodies[1], bodies[2])
  /\ pc' = "return"
  /\ UNCHANGED <<fn, dtArg, result>>
  /\ UNCHANGED <<sceneVars, engineVars, storeVars, traceVars>>

RunIsColliding ==
  /\ pc = "call" /\ fn = "isColliding"
  /\ result' = PhysicsSystem_isColliding(bodies[1], bodies[2])
  /\ pc' = "return"
  /\ UNCHANGED <<fn, dtArg, bodies>>
  /\ UNCHANGED <<sceneVars, engineVars, storeVars, traceVars>>

RunUpdateEnemies ==
  /\ pc = "call" /\ fn = "updateEnemies"
  /\ bodies' = updateEnemies(bodies)
  /\ pc' = "return"
  /\ UNCHANGED <<fn, dtArg, result>>
  /\ UNCHANGED <<sceneVars, engineVars, storeVars, traceVars>>

PhysicsNext ==
  \/ RunUpdate
  \/ RunCheckCollisions
  \/ RunResolveCollision
  \/ RunIsColliding
  \/ RunUpdateEnemies

PhysicsSpec == PhysicsInit /\ [][PhysicsNext]_vars

(* ---------- observations of a call ---------- *)
Returns(f) == pc = "call" /\ fn = f /\ pc' = "return"

HasBox(e) == "transform" \in e.comps /\ "collider" \in e.comps

Moves(e) == e.active /\ "transform" \in e.comps /\ "physics" \in e.comps

(* penetration depths of the colliders of a and b *)
PenX(a, b) == Min(a.position.x + a.collider.width - b.position.x,
                  b.position.x + b.collider.width - a.position.x)

PenY(a, b) == Min(a.position.y + a.collider.height - b.position.y,
                  b.position.y + b.collider.height - a.position.y)

(* length of the common part of the intervals [p, p+m] and [q, q+n] *)
Common(p, m, q, n) == Min(p + m, q + n) - Max(p, q)

Speed2(v) == v.x * v.x + v.y * v.y

SameDirection(v, w) == v.x * w.y = v.y * w.x /\ v.x * w.x + v.y * w.y > 0

FootW(e) == IF "sprite" \in e.comps THEN e.sprite.width ELSE defaultSize

FootH(e) == IF "sprite" \in e.comps THEN e.sprite.height ELSE defaultSize

(* the position is off the lines the boundary tests clamp to *)
OffTheWalls(e) ==
  /\ 0 < e.position.x /\ e.position.x < canvasWidth - FootW(e)
  /\ 0 < e.position.y /\ e.position.y < canvasHeight - FootW(e)

(* C13: resolveCollision on an overlapping non-trigger pair leaves a pair  *)
(* on which isColliding is false.                                          *)
C13_SeparatedAfterResolve ==
  [][(/\ Returns("resolveCollision")
      /\ PhysicsSystem_isColliding(bodies[1], bodies[2])
      /\ ~bodies[1].collider.isTrigger /\ ~bodies[2].collider.isTrigger)
       => ~PhysicsSystem_isColliding(bodies'[1], bodies'[2])]_vars

(* C14: when the penetration depths on X and Y of an overlapping pair are  *)
(* equal, resolveCollision leaves the Y positions and Y velocities as      *)
(* they were, moves both X positions and sets both X velocities to 0.      *)
C14_TieResolvesAlongX ==
  [][(/\ Returns("resolveCollision")
      /\ PhysicsSystem_isColliding(bodies[1], bodies[2])
      /\ PenX(bodies[1], bodies[2]) = PenY(bodies[1], bodies[2]))
       => \A i \in {1, 2} :
            /\ bodies'[i].position.y = bodies[i].position.y
            /\ bodies'[i].velocity.y = bodies[i].velocity.y
            /\ bodies'[i].position.x # bodies[i].position.x
            /\ bodies'[i].velocity.x = 0]_vars

(* C15: checkCollisions on an overlapping pair with at least one trigger   *)
(* calls each collider's onCollision once with the other entity and        *)
(* changes no position and no velocity.                                    *)
C15_TriggersNeverMove ==
  [][(/\ Returns("checkCollisions")
      /\ IsCollidable(bodies[1]) /\ IsCollidable(bodies[2])
      /\ PhysicsSystem_isColliding(bodies[1], bodies[2])
      /\ bodies[1].collider.isTrigger \/ bodies[2].collider.isTrigger)
       => /\ \A i \in {1, 2} :
               /\ bodies'[i].position = bodies[i].position
               /\ bodies'[i].velocity = bodies[i].velocity
               /\ bodies'[i].heard =
                    IF bodies[i].collider.onCollision
                    THEN <<bodies[3 - i].id>> ELSE << >>]_vars

C15_Witness ==
  /\ fn = "checkCollisions" /\ pc = "return"
  /\ bodies[2].collider.isTrigger /\ ~bodies[1].collider.isTrigger
  /\ bodies[1].heard = <<bodies[2].id>>
  /\ bodies[2].heard = <<bodies[1].id>>
  /\ bodies[1].velocity = VelA
  /\ bodies[2].velocity = VelB

(* C16: isColliding returns true exactly when the colliders have a common  *)
(* part of positive length on both axes; boxes of side 2 at (0,0) and      *)
(* (1,1) collide, at (0,0) and (2,2) or (2,0) they do not.                 *)
C16_OverlapIsOpen ==
  (fn = "isColliding" /\ pc = "return"
     /\ HasBox(bodies[1]) /\ HasBox(bodies[2])) =>
    LET a == bodies[1]
        b == bodies[2]
        unit == a.collider.width = 2 /\ a.collider.height = 2
                  /\ b.collider.width = 2 /\ b.collider.height = 2
                  /\ a.position = Vec(0, 0)
    IN /\ result = (/\ Common(a.position.x, a.collider.width,
                              b.position.x, b.collider.width) > 0
                    /\ Common(a.position.y, a.collider.height,
                              b.position.y, b.collider.height) > 0)
       /\ (unit /\ b.position = Vec(1, 1)) => result
       /\ (unit /\ b.position \in {Vec(2, 2), Vec(2, 0), Vec(0, -2)})
            => ~result

C16_Witness ==
  /\ fn = "isColliding" /\ pc = "return"
  /\ bodies[1].collider.width = 2 /\ bodies[1].collider.height = 2
  /\ bodies[2].collider.width = 2 /\ bodies[2].collider.height = 2
  /\ bodies[1].position = Vec(0, 0)
  /\ bodies[2].position = Vec(2, 2)
  /\ result = FALSE

(* C17: after PhysicsSystem.update the footprint [x, x+width] x            *)
(* [y, y+height] of every active entity with transform and physics lies    *)
(* within the canvas, and a position that is not the old position plus     *)
(* velocity x dt has velocity 0 on that axis.                              *)
C17_FootprintInCanvas ==
  [][Returns("update") =>
       \A i \in DOMAIN bodies :
         (/\ Moves(bodies[i])
          /\ FootW(bodies[i]) <= canvasWidth
          /\ FootH(bodies[i]) <= canvasHeight) =>
           LET e == bodies'[i]
           IN /\ 0 <= e.position.x
              /\ e.position.x + FootW(e) <= canvasWidth
              /\ 0 <= e.position.y
              /\ e.position.y + FootH(e) <= canvasHeight
              /\ e.position.x # bodies[i].position.x + MulDt(e.velocity.x, dtArg)
                   => e.velocity.x = 0
              /\ e.position.y # bodies[i].position.y + MulDt(e.velocity.y, dtArg)
                   => e.velocity.y = 0]_vars

(* |d| * 2^(-e) as a natural number, for e at or below the exponent of d *)
Scaled(d, e) == ShiftLeft(d.man, d.exp - e)

(* an exponent at or below those of both components of w, and at most 0 *)
LowExp(w) == Min(Min(w.x.exp, w.y.exp), 0)

(* the square of the length of w, times 4^(-LowExp(w)) *)
NormSq(w) ==
  LET x == Scaled(w.x, LowExp(w))
      y == Scaled(w.y, LowExp(w))
  IN BigAdd(BigMul(x, x), BigMul(y, y))

(* the square of maxVelocity on the same scale *)
MaxSq(w) == ShiftLeft(Big(maxVelocity * maxVelocity), -2 * LowExp(w))

(* |w.x| * |v.y| and |w.y| * |v.x|, equal when w lies along v or against  *)
(* it                                                                      *)
CrossXY(w, v) ==
  BigMul(Scaled(w.x, LowExp(w)), Big(IF v.y < 0 THEN -v.y ELSE v.y))

CrossYX(w, v) ==
  BigMul(Scaled(w.y, LowExp(w)), Big(IF v.x < 0 THEN -v.x ELSE v.x))

SameSigns(w, v) ==
  /\ (w.x.man = << >>) = (v.x = 0) /\ (v.x # 0 => w.x.neg = (v.x < 0))
  /\ (w.y.man = << >>) = (v.y = 0) /\ (v.y # 0 => w.y.neg = (v.y < 0))

(* a and b differ by at most b * 2^-(MantissaBits - 3): the rounding of    *)
(* the square root, the quotient and the product leaves them that close    *)
Close(a, b) ==
  LET d == IF BigLess(a, b) THEN BigSub(b, a) ELSE BigSub(a, b)
  IN ~BigLess(b, ShiftLeft(d, MantissaBits - 3))

(* C18 as stated: when the speed after acceleration and friction exceeds   *)
(* maxVelocity, PhysicsSystem.update rescales the velocity to one whose    *)
(* speed is exactly maxVelocity and whose direction is that of the         *)
(* velocity after friction; a velocity at or below maxVelocity is left as  *)
(* it is.  The rescaled velocity is the one the entity has after the       *)
(* update when no boundary test zeroes a component.                        *)
C18_Original ==
  [][Returns("update") =>
       \A i \in DOMAIN bodies :
         Moves(bodies[i]) =>
           LET v == afterFriction(bodies[i], dtArg)
               w == clampVelocity(v)
           IN /\ OffTheWalls(bodies'[i]) => bodies'[i].velocity = Stored(w)
              /\ Speed2(v) > maxVelocity * maxVelocity
                   => /\ NormSq(w) = MaxSq(w)
                      /\ SameSigns(w, v)
                      /\ CrossXY(w, v) = CrossYX(w, v)
              /\ Speed2(v) <= maxVelocity * maxVelocity => Stored(w) = v]_vars

(* C18 amended: the same, with the speed equal to maxVelocity and the      *)
(* direction unchanged up to the rounding of the doubles: the squared      *)
(* speed differs from maxVelocity squared by at most its 2^-50th part, and *)
(* so do the two products that are equal when the directions are.          *)
C18_SpeedCappedUpToRounding ==
  [][Returns("update") =>
       \A i \in DOMAIN bodies :
         Moves(bodies[i]) =>
           LET v == afterFriction(bodies[i], dtArg)
               w == clampVelocity(v)
           IN /\ OffTheWalls(bodies'[i]) => bodies'[i].velocity = Stored(w)
              /\ Speed2(v) > maxVelocity * maxVelocity
                   => /\ Close(NormSq(w), MaxSq(w))
                      /\ SameSigns(w, v)
                      /\ Close(CrossXY(w, v), CrossYX(w, v))
              /\ Speed2(v) <= maxVelocity * maxVelocity => Stored(w) = v]_vars

(* (800, 800) rescaled: both components are 353.5533905932737 *)
C18_Witness ==
  /\ fn = "update" /\ pc = "return" /\ dtArg = 0
  /\ bodies[1].position = Vec(300, 180)
  /\ bodies[1].acceleration = Vec(0, 500)
  /\ bodies[1].velocity.x = bodies[1].velocity.y
  /\ bodies[1].velocity.x = [neg |-> FALSE, man |-> <<16485, 24624, 25450, 176>>, exp |-> -44]

(* C19: after updateEnemies every hostile with transform and physics has   *)
(* speed enemySpeed towards the player, whatever velocity it had, or       *)
(* velocity (0,0) when it is at the player's position; a hostile at (0,0)  *)
(* with the player at (10,0) gets (enemySpeed, 0); positions do not        *)
(* change.                                                                 *)
C19_Pursuit ==
  [][(Returns("updateEnemies") /\ "transform" \in bodies[1].comps) =>
       \A i \in DOMAIN bodies :
         /\ bodies'[i].position = bodies[i].position
         /\ (/\ IsEnemy(bodies[i])
             /\ "transform" \in bodies[i].comps) =>
              LET d == Vec(bodies[1].position.x - bodies[i].position.x,
                           bodies[1].position.y - bodies[i].position.y)
                  w == bodies'[i].velocity
              IN /\ d = Vec(0, 0) => w = Vec(0, 0)
                 /\ d # Vec(0, 0) =>
                      /\ Speed2(w) = enemySpeed * enemySpeed
                      /\ SameDirection(w, d)
                 /\ (bodies[i].position = Vec(0, 0) /\ d = Vec(10, 0))
                      => w = Vec(enemySpeed, 0)]_vars

C19_Witness ==
  /\ fn = "updateEnemies" /\ pc = "return"
  /\ bodies[1].position = Vec(10, 0)
  /\ bodies[2].position = Vec(0, 0)
  /\ bodies[2].velocity = Vec(enemySpeed, 0)
  /\ bodies[3].velocity = Vec(0, 0)

(* C20: PhysicsSystem.update leaves an entity that is inactive or lacks    *)
(* transform or physics as it was and still integrates the other entity;   *)
(* a pair in which an entity lacks transform or collider is not colliding  *)
(* for isColliding and is left as it was by resolveCollision, and          *)
(* checkCollisions leaves a pair with such an entity or an inactive one    *)
(* as it was, callbacks included.                                          *)
C20_MissingComponentsSkipped ==
  [][/\ Returns("update") =>
          \A i \in DOMAIN bodies :
            IF Moves(bodies[i])
            THEN (/\ bodies[i].velocity # Vec(0, 0)
                  /\ bodies[i].acceleration = Vec(0, 0)
                  /\ bodies[i].friction.num < bodies[i].friction.den)
                   => bodies'[i].velocity # bodies[i].velocity
            ELSE bodies'[i] = bodies[i]
     /\ (Returns("isColliding") /\ ~(HasBox(bodies[1]) /\ HasBox(bodies[2])))
          => result' = FALSE
     /\ (Returns("resolveCollision")
           /\ ~(HasBox(bodies[1]) /\ HasBox(bodies[2])))
          => bodies' = bodies
     /\ (Returns("checkCollisions")
           /\ ~(IsCollidable(bodies[1]) /\ IsCollidable(bodies[2])))
          => bodies' = bodies]_vars

C20_Witness ==
  /\ fn = "update" /\ pc = "return"
  /\ bodies[1].comps = AllComps \ {"physics"}
  /\ bodies[1].velocity = VelA
  /\ bodies[1].position = Vec(0, 0)
  /\ bodies[2].velocity # VelB

(* ====================================================================== *)
(* GameEngine: start(), stop() and the frame callback                     *)
(* (src/game/engine.ts). Times are in ms.                                  *)
(* ====================================================================== *)

(* bounds *)
MaxClock == 120       \* the clock is not read past this time
MaxChains == 2        \* frame callbacks requested and not yet run

Elapses == {FrameGap, LongGap}   \* the time between two readings of the clock

(* ---------- actions ---------- *)
(* time passes between two tasks *)
Elapse(d) ==
  /\ running = 0
  /\ clock + d <= MaxClock
  /\ clock' = clock + d
  /\ UNCHANGED <<isRunning, lastTime, frameTime, frameDue, pending, running,
                 deltaTime, updatesThisFrame, rendersThisFrame>>
  /\ UNCHANGED <<sceneVars, physicsVars, storeVars, traceVars>>

(* the browser begins a frame: its timestamp is the time of this moment,  *)
(* its callbacks run later in the frame                                   *)
BeginFrame ==
  /\ running = 0
  /\ ~frameDue
  /\ frameTime < clock
  /\ frameTime' = clock
  /\ frameDue' = TRUE
  /\ UNCHANGED <<isRunning, lastTime, clock, pending, running, deltaTime,
                 updatesThisFrame, rendersThisFrame>>
  /\ UNCHANGED <<sceneVars, physicsVars, storeVars, traceVars>>

(* the frame takes the callbacks requested so far; callbacks requested    *)
(* while they run belong to the next frame                                *)
AnimationFrame ==
  /\ frameDue
  /\ running = 0
  /\ frameDue' = FALSE
  /\ running' = pending
  /\ pending' = 0
  /\ updatesThisFrame' = 0
  /\ rendersThisFrame' = 0
  /\ UNCHANGED <<isRunning, lastTime, clock, frameTime, deltaTime>>
  /\ UNCHANGED <<sceneVars, physicsVars, storeVars, traceVars>>

(* one requested callback runs: (t) => this.gameLoop(t), the engine and  *)
(* the scene in one step                                                  *)
FrameCallback(hit, short) ==
  /\ running > 0
  /\ running' = running - 1
  /\ \E r \in {gameLoop(Engine, Scene, frameTime, hit, short)} :
       \E s \in {r.scene} :
         /\ SetEngine(r.engine)
         /\ SetScene(s)
         /\ deltaTime' = IF r.updates = << >> THEN deltaTime ELSE r.updates[1]
         /\ updatesThisFrame' = updatesThisFrame + Len(r.updates)
         /\ rendersThisFrame' = rendersThisFrame + Len(r.updates)
  /\ UNCHANGED <<clock, frameTime, frameDue, loading, timers>>
  /\ UNCHANGED <<physicsVars, storeVars, traceVars>>

(* the page calls engine.start() *)
Start ==
  /\ running = 0
  /\ pending < MaxChains
  /\ SetEngine(start(Engine, clock))
  /\ UNCHANGED <<clock, frameTime, frameDue, running, deltaTime,
                 updatesThisFrame, rendersThisFrame>>
  /\ UNCHANGED <<sceneVars, physicsVars, storeVars, traceVars>>

(* the page calls engine.stop() *)
Stop ==
  /\ running = 0
  /\ SetEngine(stop(Engine))
  /\ UNCHANGED <<clock, frameTime, frameDue, running, deltaTime,
                 updatesThisFrame, rendersThisFrame>>
  /\ UNCHANGED <<sceneVars, physicsVars, storeVars, traceVars>>

EngineNext ==
  \/ \E d \in Elapses : Elapse(d)
  \/ BeginFrame
  \/ AnimationFrame
  \/ \E hit \in SUBSET Overlappable : \E short \in Shortfalls(frameTime) : FrameCallback(hit, short)
  \/ Start
  \/ Stop

(* the engine is constructed with its scene (engine.ts: new MainScene);   *)
(* the specification starts there, or with that scene already playing a  *)
(* file of MusicLen ms                                                    *)
EngineStart ==
  /\ \E s \in {NewScene, Started(MusicLen)} : SceneIs(s)
  /\ loading = << >>
  /\ timers = 0
  /\ NoCall
  /\ EngineInit
  /\ StoreInit
  /\ NoTrace

EngineSpec == EngineStart /\ [][EngineNext]_vars

(* ---------- claims ---------- *)

(* C21: the dt handed to scene.update is never negative and never above   *)
(* the cap of 50 ms.                                                       *)
C21_DeltaInRange == 0 <= deltaTime /\ deltaTime <= DtCap

(* C27: while the loop is stopped and start() is not called, a step makes *)
(* no scene.update and no scene.render call, hands over no new dt, leaves  *)
(* the scene as it is and requests no frame: a callback that was already  *)
(* requested returns without doing work.                                  *)
C27_StoppedLoopDoesNothing ==
  [][(~isRunning /\ ~isRunning')
       => /\ updatesThisFrame' <= updatesThisFrame
          /\ rendersThisFrame' <= rendersThisFrame
          /\ deltaTime' = deltaTime
          /\ lastTime' = lastTime
          /\ pending' + running' <= pending + running
          /\ Scene' = Scene]_vars

(* a run that updated the scene, was stopped, and whose callback of a     *)
(* later frame returned with nothing done and nothing requested           *)
C27_Witness ==
  /\ ~isRunning
  /\ deltaTime > 0
  /\ frameTime > lastTime
  /\ ~frameDue
  /\ pending = 0
  /\ running = 0
  /\ updatesThisFrame = 0
  /\ rendersThisFrame = 0
  /\ gameState = PLAYING
  /\ gameTimer > 0

(* C28: scene.update runs at most once in an animation frame.             *)
C28_OneUpdatePerFrame == updatesThisFrame <= 1

(* ====================================================================== *)
(* Entity, EntityFactory and EntityManager, object by object              *)
(* (src/game/core/entity.ts). heap[r] is the Entity object with reference  *)
(* r; a JavaScript Map is the sequence of its entries in insertion order. *)
(* ====================================================================== *)

(* bounds *)
MaxEntities == 2      \* Entity objects created beside a manager
MaxOperands == 1      \* Entity objects created when components are exercised

playerSize == 32
enemySize == 32
pickupSize == 24

(* ---------- Map ---------- *)
MapHas(m, k) == \E i \in DOMAIN m : m[i][1] = k

MapIndex(m, k) == CHOOSE i \in DOMAIN m : m[i][1] = k

MapSet(m, k, v) ==
  IF MapHas(m, k)
  THEN [i \in DOMAIN m |-> IF m[i][1] = k THEN <<k, v>> ELSE m[i]]
  ELSE Append(m, <<k, v>>)

MapDelete(m, k) == SelectSeq(m, LAMBDA en : en[1] # k)

MapValues(m) == [i \in DOMAIN m |-> m[i][2]]

(* ---------- components ---------- *)
Undefined == [type |-> "undefined"]

NoRef == 0            \* EntityManager.get found nothing

Transform(x, y) ==
  [type |-> "transform", position |-> Vec(x, y), rotation |-> 0,
   scale |-> Vec(1, 1)]

Physics ==
  [type |-> "physics", velocity |-> Vec(0, 0), acceleration |-> Vec(0, 0),
   mass |-> 1, friction |-> [num |-> frictionNum, den |-> frictionDen]]

Sprite(size, color) ==
  [type |-> "sprite", width |-> size, height |-> size, color |-> color]

Collider(size, isTrigger) ==
  [type |-> "collider", width |-> size, height |-> size,
   isTrigger |-> isTrigger]

Health(current, max) == [type |-> "health", current |-> current, max |-> max]

(* a component that has an update method, which sets its flag *)
Spinner == [type |-> "spinner", updated |-> FALSE]

HasUpdate(c) == "updated" \in DOMAIN c

(* ---------- Entity ---------- *)
NewEntity(id) == [id |-> id, active |-> TRUE, components |-> << >>]

(* mutant: a component list that never replaces *)
addComponent_append(e, c) ==
  [e EXCEPT !.components = Append(e.components, <<c.type, c>>)]

addComponent(e, c) ==
  [e EXCEPT !.components = MapSet(e.components, c.type, c)]

getComponent(e, t) ==
  IF MapHas(e.components, t)
  THEN e.components[MapIndex(e.components, t)][2]
  ELSE Undefined

hasComponent(e, t) == MapHas(e.components, t)

removeComponent(e, t) ==
  [e EXCEPT !.components = MapDelete(e.components, t)]

(* Entity.update(dt): nothing when inactive, else update(dt) of every      *)
(* component that has one                                                  *)
Entity_update(e) ==
  IF ~e.active THEN e
  ELSE [e EXCEPT !.components =
          [i \in DOMAIN e.components |->
             LET c == e.components[i][2]
             IN IF HasUpdate(c)
                THEN <<e.components[i][1], [c EXCEPT !.updated = TRUE]>>
                ELSE e.components[i]]]

destroy(e) == [e EXCEPT !.active = FALSE, !.components = << >>]

(* ---------- EntityFactory ---------- *)
(* new Entity() takes an id made of the time and a random string; the     *)
(* model gives it the number of the object, which no other object has     *)
EntityFactory_createPlayer(x, y) ==
  addComponent(addComponent(addComponent(addComponent(addComponent(
    NewEntity(PlayerId),
    Transform(x, y)), Physics), Sprite(playerSize, PlayerColor)),
    Collider(playerSize, FALSE)), Health(maxHealth, maxHealth))

EntityFactory_createEnemy(id, x, y) ==
  addComponent(addComponent(addComponent(addComponent(
    NewEntity(id),
    Transform(x, y)), Physics), Sprite(enemySize, EnemyColor)),
    Collider(enemySize, FALSE))

(* mutant: a pickup that has a physics component *)
EntityFactory_createPickup_moving(id, x, y) ==
  addComponent(addComponent(addComponent(addComponent(
    NewEntity(id),
    Transform(x, y)), Physics), Sprite(pickupSize, PickupColor)),
    Collider(pickupSize, TRUE))

EntityFactory_createPickup(id, x, y) ==
  addComponent(addComponent(addComponent(
    NewEntity(id),
    Transform(x, y)), Sprite(pickupSize, PickupColor)),
    Collider(pickupSize, TRUE))

(* ---------- EntityManager ---------- *)
(* a manager is the pair of the heap and the map of references *)
Destroyed(h, refs) ==
  [r \in DOMAIN h |-> IF r \in refs THEN destroy(h[r]) ELSE h[r]]

(* mutant: add() that appends an entry whatever the map holds *)
EntityManager_add_push(m, h, r) == Append(m, <<h[r].id, r>>)

EntityManager_add(m, h, r) == MapSet(m, h[r].id, r)

EntityManager_get(m, id) ==
  IF MapHas(m, id) THEN m[MapIndex(m, id)][2] ELSE NoRef

(* mutant: remove() that destroys the entity and leaves it in the map *)
EntityManager_remove_keepEntry(m, h, id) ==
  LET r == EntityManager_get(m, id)
  IN IF r # NoRef THEN [heap |-> Destroyed(h, {r}), emap |-> m]
     ELSE [heap |-> h, emap |-> m]

EntityManager_remove(m, h, id) ==
  LET r == EntityManager_get(m, id)
  IN IF r # NoRef
     THEN [heap |-> Destroyed(h, {r}), emap |-> MapDelete(m, id)]
     ELSE [heap |-> h, emap |-> m]

EntityManager_getAll(m) == MapValues(m)

EntityManager_getByComponent(m, h, t) ==
  SelectSeq(EntityManager_getAll(m), LAMBDA r : hasComponent(h[r], t))

(* mutant: clear() that empties the map without destroying the entities *)
EntityManager_clear_noDestroy(m, h) == [heap |-> h, emap |-> << >>]

EntityManager_clear(m, h) ==
  [heap |-> Destroyed(h, {m[i][2] : i \in DOMAIN m}), emap |-> << >>]

(* ---------- inputs ---------- *)
Kinds == {"entity", "player", "enemy", "pickup"}

Places == {<<100, 200>>, <<50, 75>>}

Home == <<100, 200>>

Ids == {PlayerId} \cup (1..(MaxEntities + 1))

ComponentTypes ==
  {"transform", "physics", "sprite", "collider", "health", "spinner"}

AddedComponents == {Health(50, maxHealth), Transform(0, 0), Spinner}

RemovedTypes == {"health", "collider"}

StrippedTypes == {"collider"}

Created(kind, id, x, y) ==
  IF kind = "player" THEN EntityFactory_createPlayer(x, y)
  ELSE IF kind = "enemy" THEN EntityFactory_createEnemy(id, x, y)
  ELSE IF kind = "pickup" THEN EntityFactory_createPickup(id, x, y)
  ELSE NewEntity(id)

(* ---------- actions ---------- *)
(* a factory call, or new Entity() *)
Create(kind, x, y, most) ==
  /\ Len(heap) < most
  /\ heap' = Append(heap, Created(kind, Len(heap) + 1, x, y))
  /\ UNCHANGED <<emap, live>>
  /\ UNCHANGED <<sceneVars, physicsVars, engineVars, traceVars>>

ManagerAdd(r) ==
  /\ emap' = EntityManager_add(emap, heap, r)
  /\ live' = live \cup {r}
  /\ UNCHANGED heap
  /\ UNCHANGED <<sceneVars, physicsVars, engineVars, traceVars>>

ManagerRemove(id) ==
  /\ LET m == EntityManager_remove(emap, heap, id)
     IN heap' = m.heap /\ emap' = m.emap
  /\ live' = {r \in live : heap[r].id # id}
  /\ UNCHANGED <<sceneVars, physicsVars, engineVars, traceVars>>

ManagerClear ==
  /\ LET m == EntityManager_clear(emap, heap)
     IN heap' = m.heap /\ emap' = m.emap
  /\ live' = {}
  /\ UNCHANGED <<sceneVars, physicsVars, engineVars, traceVars>>

AddComponent(r, c) ==
  /\ heap' = [heap EXCEPT ![r] = addComponent(heap[r], c)]
  /\ UNCHANGED <<emap, live>>
  /\ UNCHANGED <<sceneVars, physicsVars, engineVars, traceVars>>

RemoveComponent(r, t) ==
  /\ heap' = [heap EXCEPT ![r] = removeComponent(heap[r], t)]
  /\ UNCHANGED <<emap, live>>
  /\ UNCHANGED <<sceneVars, physicsVars, engineVars, traceVars>>

UpdateEntity(r) ==
  /\ heap' = [heap EXCEPT ![r] = Entity_update(heap[r])]
  /\ UNCHANGED <<emap, live>>
  /\ UNCHANGED <<sceneVars, physicsVars, engineVars, traceVars>>

DestroyEntity(r) ==
  /\ heap' = [heap EXCEPT ![r] = destroy(heap[r])]
  /\ UNCHANGED <<emap, live>>
  /\ UNCHANGED <<sceneVars, physicsVars, engineVars, traceVars>>

(* one entity and its components *)
EntityNext ==
  \/ \E kind \in Kinds : Create(kind, Home[1], Home[2], MaxOperands)
  \/ \E r \in DOMAIN heap : \E c \in AddedComponents : AddComponent(r, c)
  \/ \E r \in DOMAIN heap : \E t \in RemovedTypes : RemoveComponent(r, t)
  \/ \E r \in DOMAIN heap : UpdateEntity(r)
  \/ \E r \in DOMAIN heap : DestroyEntity(r)

EntitySpec == Init /\ [][EntityNext]_vars

(* entities and a manager *)
StoreNext ==
  \/ \E kind \in Kinds : \E p \in Places : Create(kind, p[1], p[2], MaxEntities)
  \/ \E r \in DOMAIN heap : ManagerAdd(r)
  \/ \E id \in Ids : ManagerRemove(id)
  \/ ManagerClear
  \/ \E r \in DOMAIN heap : \E t \in StrippedTypes : RemoveComponent(r, t)

StoreSpec == Init /\ [][StoreNext]_vars

(* ---------- observations ---------- *)
Range(q) == {q[i] : i \in DOMAIN q}

Types(e) == {e.components[i][1] : i \in DOMAIN e.components}

IsDestroyed(e) == ~e.active /\ e.components = << >>

DistinctIds ==
  \A a, b \in live : a # b => heap[a].id # heap[b].id

OnePerKind(e) ==
  \A i, j \in DOMAIN e.components :
    /\ e.components[i][1] = e.components[i][2].type
    /\ e.components[i][1] = e.components[j][1] => i = j

(* ---------- claims ---------- *)

(* the entries of the manager's map under the id 'player' *)
PlayerEntries(m) == {i \in DOMAIN m : m[i][1] = PlayerId}

(* C22: the store holds at most one entity with the id 'player', whatever *)
(* its callers do: every entity the scene stores goes through add (init,  *)
(* restart, the spawns of rooms and of the timer), and a player that is   *)
(* added while one is stored takes its place.                             *)
C22_AtMostOnePlayer == Cardinality(PlayerEntries(emap)) <= 1

(* two players were created and added one after the other; the store      *)
(* holds the second                                                       *)
C22_Witness ==
  /\ Len(heap) = 2
  /\ heap[1].id = PlayerId /\ heap[2].id = PlayerId
  /\ live = {1, 2}
  /\ emap = <<(<<PlayerId, 2>>)>>

(* C23: after clear() getAll() is empty and every entity that was in the  *)
(* manager is inactive and has no components; after remove(id) get(id)    *)
(* finds nothing and the entity that was stored under id is inactive and  *)
(* has no components; remove of an id that is not stored changes nothing. *)
C23_RemovedIsDestroyed ==
  [][/\ ManagerClear
          => /\ EntityManager_getAll(emap') = << >>
             /\ \A r \in Range(EntityManager_getAll(emap)) :
                  IsDestroyed(heap'[r])
     /\ \A id \in Ids :
          ManagerRemove(id)
            => LET r == EntityManager_get(emap, id)
               IN /\ EntityManager_get(emap', id) = NoRef
                  /\ r # NoRef => IsDestroyed(heap'[r])
                  /\ r = NoRef => (heap' = heap /\ emap' = emap)]_vars

(* two entities that were stored, with their components, and are now      *)
(* destroyed and out of the manager                                        *)
C23_Witness ==
  /\ Len(heap) = 2
  /\ emap = << >>
  /\ heap[1].id = PlayerId
  /\ \A r \in DOMAIN heap : IsDestroyed(heap[r])

(* C24: when the entities added and not removed since have distinct ids,  *)
(* getAll() is exactly these entities, get(id) is the entity added under  *)
(* id, and getByComponent(t) is exactly those of them that have a         *)
(* component of type t now.                                                *)
C24_StoreIsAddedMinusRemoved ==
  DistinctIds
    => /\ Range(EntityManager_getAll(emap)) = live
       /\ Len(EntityManager_getAll(emap)) = Cardinality(live)
       /\ \A r \in live : EntityManager_get(emap, heap[r].id) = r
       /\ \A id \in Ids :
            EntityManager_get(emap, id) # NoRef
              => heap[EntityManager_get(emap, id)].id = id
       /\ \A t \in ComponentTypes :
            Range(EntityManager_getByComponent(emap, heap, t))
              = {r \in live : hasComponent(heap[r], t)}

(* the first entity was added and removed, the second is stored and has   *)
(* lost its collider since it was created                                 *)
C24_Witness ==
  /\ Len(heap) = 2
  /\ live = {2}
  /\ IsDestroyed(heap[1])
  /\ heap[2].active
  /\ Types(heap[2]) = {"transform", "physics", "sprite"}
  /\ EntityManager_getByComponent(emap, heap, "sprite") = <<2>>
  /\ EntityManager_getByComponent(emap, heap, "collider") = << >>

(* C25: an entity never has two components of one kind; after             *)
(* addComponent(c) it has a component of c's type and getComponent gives  *)
(* c; after removeComponent(t) it has none of type t; after destroy() it  *)
(* is inactive, has no components, and update changes nothing.            *)
C25_ComponentsByKind ==
  [][/\ \A r \in DOMAIN heap' : OnePerKind(heap'[r])
     /\ \A r \in DOMAIN heap : \A c \in AddedComponents :
          AddComponent(r, c)
            => /\ hasComponent(heap'[r], c.type)
               /\ getComponent(heap'[r], c.type) = c
               /\ Types(heap'[r]) = Types(heap[r]) \cup {c.type}
     /\ \A r \in DOMAIN heap : \A t \in RemovedTypes :
          RemoveComponent(r, t)
            => /\ ~hasComponent(heap'[r], t)
               /\ getComponent(heap'[r], t) = Undefined
               /\ Types(heap'[r]) = Types(heap[r]) \ {t}
     /\ \A r \in DOMAIN heap :
          DestroyEntity(r)
            => /\ IsDestroyed(heap'[r])
               /\ Entity_update(heap'[r]) = heap'[r]
     /\ \A r \in DOMAIN heap :
          (UpdateEntity(r) /\ ~heap[r].active) => heap' = heap]_vars

(* a player whose health component was replaced and whose added spinner   *)
(* was updated                                                             *)
C25_Witness ==
  /\ Len(heap) = 1
  /\ heap[1].id = PlayerId
  /\ heap[1].active
  /\ getComponent(heap[1], "health") = Health(50, maxHealth)
  /\ hasComponent(heap[1], "spinner")
  /\ getComponent(heap[1], "spinner").updated
  /\ Len(heap[1].components) = 6

(* C26: createPlayer(x, y) gives the entity 'player' with transform,      *)
(* physics, sprite, a non-trigger collider and health with current = max; *)
(* createEnemy(x, y) gives transform, physics, sprite and a non-trigger   *)
(* collider; createPickup(x, y) gives transform, sprite and a trigger     *)
(* collider and no physics; each with its transform at (x, y).            *)
C26_FactoryBundles ==
  [][\A kind \in Kinds \ {"entity"} : \A p \in Places :
       Create(kind, p[1], p[2], MaxEntities)
         => LET e == heap'[Len(heap')]
            IN /\ e.active
               /\ getComponent(e, "transform").position = Vec(p[1], p[2])
               /\ (kind = "player")
                    => /\ e.id = PlayerId
                       /\ Types(e) = {"transform", "physics", "sprite",
                                       "collider", "health"}
                       /\ ~getComponent(e, "collider").isTrigger
                       /\ getComponent(e, "health").current
                            = getComponent(e, "health").max
               /\ (kind = "enemy")
                    => /\ Types(e) = {"transform", "physics", "sprite",
                                       "collider"}
                       /\ ~getComponent(e, "collider").isTrigger
               /\ (kind = "pickup")
                    => /\ Types(e) = {"transform", "sprite", "collider"}
                       /\ getComponent(e, "collider").isTrigger]_vars

(* a pickup made at (50, 75) and then a player made at (100, 200) *)
C26_Witness ==
  /\ Len(heap) = 2
  /\ Types(heap[1]) = {"transform", "sprite", "collider"}
  /\ getComponent(heap[1], "transform").position = Vec(50, 75)
  /\ heap[2].id = PlayerId
  /\ getComponent(heap[2], "transform").position = Vec(100, 200)
  /\ getComponent(heap[2], "health").current = maxHealth

(* ====================================================================== *)
(* MainScene.update late in a run: the pickup spawn timer and the order   *)
(* of the calls of one tick (src/game/scenes/mainScene.ts)                *)
(* ====================================================================== *)

(* ---------- states late in a run ---------- *)
(* the times, in ms of play, at which the model takes up a run, and the   *)
(* length of its music: of the ticks that follow, some bring the spawn    *)
(* timer and the play time to their thresholds exactly and some past them *)
SpawnStarts == {4984}

LongDurations == {5032}

(* t ms of ticks with no key down and no overlap, short of the spawn      *)
(* interval and of the end of the music                                   *)
Quiet(s, t) ==
  [s EXCEPT !.gameTimer = s.gameTimer + t,
            !.pickupSpawnTimer = s.pickupSpawnTimer + t]

(* n rooms cleared and left: a tick in which the player overlaps every    *)
(* hostile, then a tick with E down                                       *)
RECURSIVE ClearRooms(_, _)
ClearRooms(s, n) ==
  IF n = 0 THEN s
  ELSE CHOOSE s3 \in
         {[s2 EXCEPT !.keys = {}] :
            s2 \in {update([s1 EXCEPT !.keys = {"e"}], DtCap, {}, {}).scene :
              s1 \in {update(s0, DtCap, Hostiles(s0.entities), {}).scene :
                s0 \in {ClearRooms(s, n - 1)}}}} : TRUE

(* the run in its last room: four rooms cleared at the cost of all the    *)
(* health, the hostiles of room 4 and the first pickup in the store       *)
LateRun(t, d) ==
  CHOOSE late \in {Quiet(s, t - s.gameTimer) :
                     s \in {ClearRooms(Started(d), totalRooms - 1)}} : TRUE

SpawnStates == {LateRun(t, d) : t \in SpawnStarts, d \in LongDurations}

SpawnInit ==
  /\ \E s \in SpawnStates :
       /\ entities = s.entities
       /\ player = s.player
       /\ gameState = s.gameState
       /\ score = s.score
       /\ pickupSpawnTimer = s.pickupSpawnTimer
       /\ currentRoom = s.currentRoom
       /\ roomsCleared = s.roomsCleared
       /\ enemiesSpawnedInRoom = s.enemiesSpawnedInRoom
       /\ musicDuration = s.musicDuration
       /\ gameTimer = s.gameTimer
       /\ flamesExtinguished = s.flamesExtinguished
       /\ totalFlames = s.totalFlames
       /\ keys = s.keys
       /\ uploaderVisible = s.uploaderVisible
       /\ bgMusic = s.bgMusic
       /\ nextObj = s.nextObj
       /\ toggledThisPress = s.toggledThisPress
  /\ loading = << >>
  /\ timers = 0
  /\ NoCall
  /\ EngineStarted
  /\ StoreInit
  /\ NoTrace

(* a frame callback late in a run: gameLoop(timestamp), with the calls    *)
(* its scene.update makes recorded                                       *)
SpawnTick(timestamp, hit, short) ==
  /\ pending > 0
  /\ \E r \in {gameLoop([Engine EXCEPT !.pending = pending - 1], Scene,
                         timestamp, hit, short)} :
       \E s \in {r.scene} :
         /\ s.nextObj < FirstObj(s.nextObj - 1) + MaxObjs
         /\ s.gameState = PLAYING
              => \E t \in SpawnStarts : s.gameTimer >= t - MaxRewind
         /\ SetEngine(r.engine)
         /\ SetScene(s)
         /\ calls' = IF r.updates = << >> THEN calls ELSE r.calls
  /\ UNCHANGED <<loading, timers>>
  /\ UNCHANGED <<clock, frameTime, frameDue, running, deltaTime,
                 updatesThisFrame, rendersThisFrame>>
  /\ UNCHANGED <<physicsVars, storeVars>>

SpawnNext ==
  \/ \E k \in Keys : KeyDown(k)
  \/ \E k \in Keys : KeyUp(k)
  \/ \E timestamp \in FrameTimes : \E hit \in SUBSET Overlappable : \E short \in Shortfalls(timestamp) : SpawnTick(timestamp, hit, short)

SpawnSpec == SpawnInit /\ [][SpawnNext]_vars

(* ---------- observations ---------- *)
NewPickups == Pickups(entities') \ Pickups(entities)

(* a tick that ran update() to its end *)
FullTick ==
  /\ gameState = PLAYING
  /\ gameState' = PLAYING
  /\ keys' = keys

Only(q, S) == SelectSeq(q, LAMBDA c : c \in S)

ClaimedCalls ==
  {"updatePlayerInput", "PhysicsSystem.update", "handleCollisions",
   "updateEnemies", "pickupSpawnTimer", "checkRoomCleared", "updateFPS"}

(* ---------- claims ---------- *)

(* the spawn timer in a tick that ran to its end: the tick adds its dt to *)
(* the timer; when the sum is past 5 s exactly one pickup is added to the *)
(* store and the timer is 0 after the tick, when it is short of 5 s no    *)
(* pickup is added, and when the exact sum is 5 s the one or the other    *)
(* happens, as the sum of doubles of the code falls                       *)
SpawnRule ==
  FullTick
    => LET t == pickupSpawnTimer + (gameTimer' - gameTimer)
       IN /\ \/ Cardinality(NewPickups) = 1 /\ pickupSpawnTimer' = 0
             \/ NewPickups = {} /\ pickupSpawnTimer' = t
          /\ t > pickupSpawnInterval => Cardinality(NewPickups) = 1
          /\ t < pickupSpawnInterval => NewPickups = {}

(* C29 as stated: the spawn timer as above, and a step that finds the     *)
(* game PAUSED, AWAITING_MUSIC, GAME_OVER or VICTORY adds no pickup and   *)
(* leaves the timer as it is.                                             *)
C29_Original ==
  [][/\ SpawnRule
     /\ gameState \in {PAUSED, AWAITING_MUSIC, GAME_OVER, VICTORY}
          => /\ NewPickups = {}
             /\ pickupSpawnTimer' = pickupSpawnTimer]_vars

(* C29 amended: the spawn timer as above; every other step (a tick in     *)
(* PAUSED, AWAITING_MUSIC, GAME_OVER or VICTORY, a tick that pauses or    *)
(* ends the run, a key event) adds no pickup and leaves the timer as it   *)
(* is, but for the tick that restarts, which sets the timer to 0 and      *)
(* fills the store anew, with one pickup.                                 *)
C29_PickupEveryInterval ==
  [][/\ SpawnRule
     /\ (~FullTick /\ ~RestartStep)
          => /\ NewPickups = {}
             /\ pickupSpawnTimer' = pickupSpawnTimer
     /\ RestartStep
          => /\ pickupSpawnTimer' = 0
             /\ Cardinality(Pickups(entities')) = 1]_vars

(* the tick that crossed 5 s has run to its end: it has added the second  *)
(* pickup and reset the timer                                             *)
C29_Witness ==
  /\ gameState = PLAYING
  /\ gameTimer > pickupSpawnInterval
  /\ pickupSpawnTimer = 0
  /\ Cardinality(Pickups(entities)) = 2
  /\ Len(calls) > 1

(* C30: of the calls of a tick that runs to its end, the spawn timer      *)
(* comes before the room-cleared check: player velocity, integrator,      *)
(* collision pass, hostile controller, spawn timer, room-cleared check,   *)
(* FPS counter.                                                           *)
C30_Original ==
  (Len(calls) > 1)
    => Only(calls, ClaimedCalls)
         = <<"updatePlayerInput", "PhysicsSystem.update", "handleCollisions",
             "updateEnemies", "pickupSpawnTimer", "checkRoomCleared",
             "updateFPS">>

(* ====================================================================== *)
(* PhysicsSystem.checkCollisions on three entities: the order of the      *)
(* pairs and of the callbacks (src/game/core/physics.ts)                  *)
(* ====================================================================== *)

(* three boxes of 32 x 32 on a grid of 8: every overlap the pass halves   *)
(* is even, so the code's doubles are whole numbers                       *)
SecondPlaces == {<<8, 0>>, <<16, 8>>, <<40, 0>>}

ThirdPlaces == {<<-8, 8>>, <<8, 16>>, <<24, 0>>, <<0, 40>>}

BoxAt(id, color, p) == Body(id, color, Vec(p[1], p[2]), Vec(0, 0), playerSize, playerSize)

TripleInputs ==
  {<<WithTrigger(BoxAt(PlayerId, PlayerColor, <<0, 0>>), ta, ca),
     Stripped(WithTrigger(BoxAt(1, EnemyColor, p2), tb, cb), AllComps, ab),
     WithTrigger(BoxAt(2, PickupColor, p3), tc, cc)>> :
     p2 \in SecondPlaces, p3 \in ThirdPlaces,
     ta \in BOOLEAN, tb \in BOOLEAN, tc \in BOOLEAN,
     ca \in BOOLEAN, cb \in BOOLEAN, cc \in BOOLEAN, ab \in BOOLEAN}

PairInit ==
  /\ SceneInit
  /\ EngineInit
  /\ StoreInit
  /\ NoTrace
  /\ pc = "call"
  /\ result = FALSE
  /\ fn = "checkCollisions"
  /\ dtArg = 0
  /\ bodies \in TripleInputs

PairNext == RunCheckCollisions

PairSpec == PairInit /\ [][PairNext]_vars

(* ---------- observations ---------- *)
(* the pair (i, j) as the pass treats it when it comes to it *)
PairStep(es, i, j) ==
  IF IsCollidable(es[i]) /\ IsCollidable(es[j])
  THEN checkPair(es, i, j)
  ELSE es

Increasing(q) == \A k, l \in DOMAIN q : k < l => q[k] < q[l]

(* ---------- claims ---------- *)

(* C31: checkCollisions on three entities treats the pairs (1,2), (1,3),  *)
(* (2,3) of collidable entities once each and in this order, each pair on *)
(* the positions the earlier pairs left; an entity's callback hears the   *)
(* others in index order, never one twice; for the first overlapping pair *)
(* A's callback runs before B's (B finds that A has heard it, A finds     *)
(* that B has not) and both find the other where it was before the pair   *)
(* was separated.                                                          *)
C31_PairsInIndexOrder ==
  [][Returns("checkCollisions")
       => /\ bodies' = PairStep(PairStep(PairStep(bodies, 1, 2), 1, 3), 2, 3)
          /\ \A i \in DOMAIN bodies :
               /\ Increasing(bodies'[i].heard)
               /\ Len(bodies'[i].seen) = Len(bodies'[i].heard)
               /\ bodies[i].collider.onCollision \/ bodies'[i].heard = << >>
          /\ (/\ IsCollidable(bodies[2])
              /\ PhysicsSystem_isColliding(bodies[1], bodies[2]))
               => /\ bodies[1].collider.onCollision
                       => /\ bodies'[1].heard[1] = bodies[2].id
                          /\ bodies'[1].seen[1] =
                               [position |-> bodies[2].position,
                                heard |-> << >>]
                  /\ bodies[2].collider.onCollision
                       => /\ bodies'[2].heard[1] = bodies[1].id
                          /\ bodies'[2].seen[1] =
                               [position |-> bodies[1].position,
                                heard |-> IF bodies[1].collider.onCollision
                                          THEN <<bodies[2].id>>
                                          ELSE << >>]]_vars

(* all three overlap, none is a trigger, every callback heard both others *)
(* in index order, and the third entity was moved by both of its pairs    *)
C31_Witness ==
  /\ fn = "checkCollisions" /\ pc = "return"
  /\ Len(bodies) = 3
  /\ bodies[1].heard = <<1, 2>>
  /\ bodies[2].heard = <<PlayerId, 2>>
  /\ bodies[3].heard = <<PlayerId, 1>>
  /\ \A i \in DOMAIN bodies : ~bodies[i].collider.isTrigger
  /\ bodies[3].seen[2].position # bodies[2].position

(* ====================================================================== *)
(* Player input: InputSystem (src/game/core/input.ts) and                 *)
(* MainScene.updatePlayerInput (src/game/scenes/mainScene.ts)             *)
(* ====================================================================== *)

playerSpeed == 200

(* e.key of the keyboard events: letters with and without shift, arrows,  *)
(* and one key the movement does not read                                 *)
RawKeys == {"a", "A", "d", "D", "w", "W", "s", "S",
            "ArrowLeft", "ArrowRight", "ArrowUp", "ArrowDown", "p"}

(* String.prototype.toLowerCase on the keys above *)
toLowerCase(k) ==
  CASE k = "A" -> "a"
    [] k = "D" -> "d"
    [] k = "W" -> "w"
    [] k = "S" -> "s"
    [] k = "ArrowLeft" -> "arrowleft"
    [] k = "ArrowRight" -> "arrowright"
    [] k = "ArrowUp" -> "arrowup"
    [] k = "ArrowDown" -> "arrowdown"
    [] OTHER -> k

(* InputSystem.isKeyPressed / isAnyKeyPressed on the set of held keys *)
isAnyKeyPressed(held, ks) == \E k \in ks : toLowerCase(k) \in held

(* mutant: left wins over right instead of cancelling it *)
getHorizontal_leftWins(held) ==
  IF isAnyKeyPressed(held, {"a", "arrowleft"}) THEN -1
  ELSE IF isAnyKeyPressed(held, {"d", "arrowright"}) THEN 1
  ELSE 0

getHorizontal(held) ==
  LET h0 == 0
      h1 == IF isAnyKeyPressed(held, {"a", "arrowleft"}) THEN h0 - 1 ELSE h0
      h2 == IF isAnyKeyPressed(held, {"d", "arrowright"}) THEN h1 + 1 ELSE h1
  IN h2

getVertical(held) ==
  LET v0 == 0
      v1 == IF isAnyKeyPressed(held, {"w", "arrowup"}) THEN v0 - 1 ELSE v0
      v2 == IF isAnyKeyPressed(held, {"s", "arrowdown"}) THEN v1 + 1 ELSE v1
  IN v2

(* MainScene.updatePlayerInput; es is << >> when this.player is null *)
updatePlayerInput(es, held) ==
  IF es = << >> THEN es
  ELSE IF "physics" \notin es[1].comps THEN es
  ELSE [es EXCEPT ![1].velocity = Vec(getHorizontal(held) * playerSpeed,
                                      getVertical(held) * playerSpeed)]

(* ---------- inputs ---------- *)
InputPlayers ==
  {<< >>}
  \cup {<<Stripped(Body(PlayerId, PlayerColor, Vec(0, 0), Vec(vx, 0),
                        playerSize, playerSize), c, TRUE)>> :
          vx \in {0, 7}, c \in {AllComps, AllComps \ {"physics"}}}

InputInit ==
  /\ SceneInit
  /\ EngineInit
  /\ StoreInit
  /\ NoTrace
  /\ pc = "call"
  /\ result = FALSE
  /\ fn = "updatePlayerInput"
  /\ dtArg = 0
  /\ bodies \in InputPlayers

(* ---------- actions ---------- *)
(* the keydown listener of InputSystem *)
PressKey(k) ==
  /\ fn = "updatePlayerInput"
  /\ keys' = keys \cup {toLowerCase(k)}
  /\ UNCHANGED <<entities, player, gameState, score, pickupSpawnTimer,
                 currentRoom, roomsCleared, enemiesSpawnedInRoom,
                 musicDuration, gameTimer, flamesExtinguished, totalFlames,
                 uploaderVisible, bgMusic, loading, timers, nextObj, toggledThisPress>>
  /\ UNCHANGED <<physicsVars, engineVars, storeVars, traceVars>>

(* the keyup listener of InputSystem *)
ReleaseKey(k) ==
  /\ fn = "updatePlayerInput"
  /\ keys' = keys \ {toLowerCase(k)}
  /\ UNCHANGED <<entities, player, gameState, score, pickupSpawnTimer,
                 currentRoom, roomsCleared, enemiesSpawnedInRoom,
                 musicDuration, gameTimer, flamesExtinguished, totalFlames,
                 uploaderVisible, bgMusic, loading, timers, nextObj, toggledThisPress>>
  /\ UNCHANGED <<physicsVars, engineVars, storeVars, traceVars>>

RunUpdatePlayerInput ==
  /\ fn = "updatePlayerInput"
  /\ bodies' = updatePlayerInput(bodies, keys)
  /\ pc' = "return"
  /\ UNCHANGED <<fn, dtArg, result>>
  /\ UNCHANGED <<sceneVars, engineVars, storeVars, traceVars>>

InputNext ==
  \/ \E k \in RawKeys : PressKey(k)
  \/ \E k \in RawKeys : ReleaseKey(k)
  \/ RunUpdatePlayerInput

InputSpec == InputInit /\ [][InputNext]_vars

(* ---------- observations ---------- *)
Held(ks) == keys \cap ks # {}

(* -1, 0 or 1 from the two directions of one axis; both held give 0 *)
Axis(minus, plus) ==
  IF minus /\ ~plus THEN -1 ELSE IF plus /\ ~minus THEN 1 ELSE 0

HasPhysics(es) == es # << >> /\ "physics" \in es[1].comps

(* ---------- claims ---------- *)

(* C32: after updatePlayerInput the velocity of a player with a physics   *)
(* component is (h * speed, v * speed), h and v being -1, 0 or 1 from the *)
(* held keys of each axis with opposite keys cancelling; when both axes   *)
(* are active the squared speed is twice the squared configured speed.    *)
C32_VelocityFromKeys ==
  [][(fn = "updatePlayerInput" /\ keys' = keys /\ HasPhysics(bodies))
       => LET h == Axis(Held({"a", "arrowleft"}), Held({"d", "arrowright"}))
              v == Axis(Held({"w", "arrowup"}), Held({"s", "arrowdown"}))
              vel == bodies'[1].velocity
          IN /\ vel = Vec(h * playerSpeed, v * playerSpeed)
             /\ (h # 0 /\ v # 0)
                  => vel.x * vel.x + vel.y * vel.y
                       = 2 * playerSpeed * playerSpeed]_vars

(* right and up are held, by an arrow key and a shifted letter: the      *)
(* player moves along the diagonal at speed * sqrt(2)                     *)
C32_Witness ==
  /\ fn = "updatePlayerInput" /\ pc = "return"
  /\ keys = {"arrowright", "w"}
  /\ HasPhysics(bodies)
  /\ bodies[1].velocity = Vec(playerSpeed, 0 - playerSpeed)
  /\ bodies[1].velocity.x * bodies[1].velocity.x
       + bodies[1].velocity.y * bodies[1].velocity.y = 80000

(* ====================================================================== *)
(* Claims on the scene: runs, collision passes, score and rooms           *)
(* ====================================================================== *)

(* the step in which a delayed startGame of an upload fires *)
StartStep == timers' = timers - 1

(* C33: a delayed startGame fires only while AWAITING_MUSIC: it never     *)
(* turns PAUSED, GAME_OVER or VICTORY into PLAYING and never sets         *)
(* gameTimer back to 0 in a run that is under way.                        *)
C33_StartOnlyWhenAwaiting ==
  [][StartStep
       => /\ gameState = AWAITING_MUSIC
          /\ gameState \in {PAUSED, GAME_OVER, VICTORY}
               => gameState' = gameState
          /\ gameState # AWAITING_MUSIC => gameTimer' = gameTimer]_vars

(* the scene after the first k entities of the snapshot of a collision    *)
(* pass in which the player overlaps the objects of hit                   *)
Pass(k, hit) == collideLoop(Scene, SubSeq(entities, 1, k), 1, hit)

HealthIn(s) == PlayerEntity(s.entities, s.player).current

(* the reaction to the k-th entity of the snapshot brings health to 0 *)
DiesAt(k, hit) ==
  HealthIn(Pass(k - 1, hit)) > 0 /\ HealthIn(Pass(k, hit)) = 0

(* a tick that runs the collision pass with the overlaps hit *)
PassStep(hit) ==
  /\ gameState = PLAYING
  /\ ~isKeyPressed(Scene, "p")
  /\ ~TimeUpStep
  /\ \E dt \in DtSet :
       \E short \in SUBSET Timers :
         LET s == update(Scene, dt, hit, short).scene
         IN /\ entities' = s.entities
            /\ score' = s.score
            /\ gameTimer' = s.gameTimer

(* C34: when a reaction of a collision pass brings the player's health to *)
(* 0, the health is 0 at the end of that tick and the score is the one    *)
(* reached with that reaction.                                            *)
C34_DeadStaysDead ==
  [][\A hit \in SUBSET Overlappable : \A k \in DOMAIN entities :
       (PassStep(hit) /\ DiesAt(k, hit))
         => /\ PlayerHealth' = 0
            /\ score' = Pass(k, hit).score]_vars

(* C35: in a step from PLAYING every reaction removes its subject and     *)
(* every removed hostile or pickup reacted once: the defeated count grows *)
(* by the number of hostiles that left the store, the score by 20 per     *)
(* hostile and 10 per pickup that left it, and no object that left the    *)
(* store is in it again later in the run (what enters the store is new).  *)
C35_OneReactionPerEntity ==
  [][gameState = PLAYING
       => /\ flamesExtinguished' - flamesExtinguished
               = Cardinality(TakenHostiles)
          /\ score' - score = enemyScore * Cardinality(TakenHostiles)
                                + pickupScore * Cardinality(TakenPickups)
          /\ \A o \in Objs(entities') \ Objs(entities) : o >= nextObj]_vars

(* two hostiles and the pickup have reacted, once each; the third hostile *)
(* is still in the store                                                  *)
C35_Witness ==
  /\ gameState = PLAYING
  /\ flamesExtinguished = 2
  /\ Cardinality(Hostiles(entities)) = 1
  /\ Pickups(entities) = {}
  /\ score = 2 * enemyScore + pickupScore

(* C36: the score starts at 0 with no flame extinguished; every step that *)
(* is not a restart adds 20 per flame extinguished and 10 per pickup      *)
(* taken from the store and nothing else, so the score is                 *)
(* 20 * flamesExtinguished + 10 * pickups collected and never decreases;  *)
(* a restart sets score and flamesExtinguished to 0, and nothing else     *)
(* lowers the score.                                                      *)
C36_ScoreAccounting ==
  /\ score = 0 /\ flamesExtinguished = 0
  /\ [][/\ RestartStep => score' = 0 /\ flamesExtinguished' = 0
        /\ ~RestartStep
             => /\ score' = score
                      + enemyScore * (flamesExtinguished' - flamesExtinguished)
                      + pickupScore * Cardinality(TakenPickups)
                /\ flamesExtinguished' >= flamesExtinguished
                /\ score' >= score]_vars

(* a room of three flames and one pickup: 3 * 20 + 10 *)
C36_Witness ==
  /\ gameState = PLAYING
  /\ flamesExtinguished = enemiesPerRoom
  /\ score = enemiesPerRoom * enemyScore + pickupScore
  /\ currentRoom = 1

(* the rooms the run has been in: a room is left only when it is cleared *)
RoomsVisited == roomsCleared \cup {currentRoom}

(* C37: each room the run has been in was seeded with enemiesPerRoom      *)
(* hostiles exactly once: the flames extinguished plus the hostiles in    *)
(* the store are enemiesPerRoom per visited room; hence the store never   *)
(* holds more than enemiesPerRoom hostiles and flamesExtinguished never   *)
(* exceeds totalRooms * enemiesPerRoom, which is totalFlames once a file  *)
(* was loaded.                                                            *)
C37_RoomsSeededOnce ==
  /\ RoomsVisited \subseteq 0..(totalRooms - 1)
  /\ flamesExtinguished + Cardinality(Hostiles(entities))
       = enemiesPerRoom * Cardinality(RoomsVisited)
  /\ Cardinality(Hostiles(entities)) <= enemiesPerRoom
  /\ flamesExtinguished <= totalRooms * enemiesPerRoom
  /\ totalFlames \in {0, totalRooms * enemiesPerRoom}
  /\ gameState # AWAITING_MUSIC => flamesExtinguished <= totalFlames

(* rooms 0 and 1 were cleared and the player walked back to room 0,      *)
(* where no hostile was seeded again                                      *)
C37_Witness ==
  /\ gameState = PLAYING
  /\ roomsCleared = {0, 1}
  /\ currentRoom = 0
  /\ flamesExtinguished = 2 * enemiesPerRoom
  /\ Hostiles(entities) = {}

(* C38: roomsCleared grows in every step that is not a restart, and in    *)
(* every state in which the current room is in roomsCleared the store     *)
(* holds no hostile.                                                      *)
C38_ClearedRoomIsEmpty ==
  /\ [](currentRoom \in roomsCleared => Hostiles(entities) = {})
  /\ [][~RestartStep => roomsCleared \subseteq roomsCleared']_vars

(* the player is back in the cleared room 1 with room 2 cleared as well   *)
C38_Witness ==
  /\ gameState = PLAYING
  /\ roomsCleared = {0, 1, 2}
  /\ currentRoom = 1
  /\ Hostiles(entities) = {}

(* the states in which update() returns without touching the scene *)
Idle ==
  \/ gameState = AWAITING_MUSIC
  \/ gameState \in {GAME_OVER, VICTORY} /\ ~isKeyPressed(Scene, "r")

(* C39: in AWAITING_MUSIC with any keys down, and in GAME_OVER or VICTORY *)
(* without R down, update(dt) returns the scene as it found it, whatever  *)
(* dt and whatever the player overlaps: gameState, entities, health,      *)
(* score, timers and room state are unchanged.                            *)
C39_IdleTickChangesNothing ==
  Idle => \A dt \in DtSet : \A hit \in SUBSET Objs(entities) :
            \A short \in SUBSET Timers :
              update(Scene, dt, hit, short).scene = Scene

(* a lost run with points scored, a key other than R held *)
C39_Witness ==
  /\ gameState = GAME_OVER
  /\ keys = {"e"}
  /\ score > 0
  /\ gameTimer >= musicDuration
  /\ Hostiles(entities) # {}

(* ====================================================================== *)
(* The end of a run: the scene specification with the timers of the       *)
(* uploads firing                                                         *)
(* ====================================================================== *)

(* setTimeout fires: the callback of handleMusicUpload runs 2 s after the *)
(* upload. Whether update calls keep coming is left to the premises of    *)
(* the claims: the engine requests a frame only while its loop runs.      *)
LiveSpec ==
  /\ Init
  /\ [][Next]_vars
  /\ WF_vars(StartTimer)

(* ---------- observations ---------- *)
RunStarted == gameState = PLAYING /\ musicDuration > 0

RunEnded == gameState \in {GAME_OVER, VICTORY}

(* an update call with dt > 0 *)
PositiveTick ==
  \E timestamp \in {f \in FrameTimes : f > lastTime} :
    \E hit \in SUBSET Overlappable : \E short \in Shortfalls(timestamp) :
      Tick(timestamp, hit, short)

(* gameTimer is not set back while a run goes on: no tick with dt < 0     *)
(* that reaches the timer, no startGame of a later upload                 *)
NoRewind ==
  (gameState \in {PLAYING, PAUSED} /\ gameState' \in {PLAYING, PAUSED})
    => gameTimer' >= gameTimer

(* ---------- claims ---------- *)

(* C40: when update calls with dt > 0 keep arriving and the game is not   *)
(* paused for ever (it is not PAUSED again and again without end), a run  *)
(* started with musicDuration > 0 leads to GAME_OVER or VICTORY; read in  *)
(* the claim's favour, with gameTimer from some time on never set back.   *)
C40_Original ==
  (([]<><<PositiveTick>>_vars) /\ (<>[][NoRewind]_vars)
      /\ ([]<>(gameState # PAUSED)))
    => (RunStarted ~> RunEnded)

====
